---------------------------- MODULE Spec2Model ----------------------------
(***************************************************************************)
(* A model of parquet-lens: the three offset-recording Thrift decode       *)
(* engines (parquet_lens.py = v1, parquet_lens_v2.py = v2,                  *)
(* parquet_lens_v3.py = v3), the segment builders that turn their traces   *)
(* into output, and the v3 container navigator.                            *)
(*                                                                         *)
(* The footer is a compact-protocol byte stream.  The model does not keep  *)
(* the bytes: it keeps the cursor and lets every field header, list header *)
(* and value the stream may hold be chosen when the decoder reaches it.    *)
(* One action is one call of a protocol hook (readStructBegin,             *)
(* readFieldBegin, a primitive read, readListBegin, readListEnd,           *)
(* readFieldEnd, readStructEnd) made by the generated struct reader; the   *)
(* reader's call stack is the driver stack stk.                            *)
(***************************************************************************)
EXTENDS Integers, Sequences, FiniteSets, TLC

VARIABLES
    pc,        \* where the run is: "decode", "done", "error", "returned", ...
    engine,    \* which program runs: "v1", "v2", "v3", "nav"
    pos,       \* transport cursor, relative to the start of the decoded blob
    limit,     \* bytes the transport can deliver from the blob start
    stk,       \* call stack of the generated readers (driver frames)
    hdrs,      \* non-STOP field headers read so far
    elems,     \* list elements announced by the list headers read so far
    root,      \* the decoded thrift object, once the root struct is complete
    v1,        \* state of the v1 OffsetRecordingProtocol
    v2,        \* state of the v2 OffsetRecordingProtocol
    v3,        \* state of the v3 OffsetRecordingProtocol
    out,       \* what the analysis returned
    nav        \* state of the v3 container navigator

vars == <<pc, engine, pos, limit, stk, hdrs, elems, root, v1, v2, v3, out, nav>>

-----------------------------------------------------------------------------
(* Bounds of the model *)

MaxHeaders == 5
MaxElems == 4
MaxFooterLen == 14
MaxIntVal == 1
MaxFileSize == 14
MaxRegions == 2

-----------------------------------------------------------------------------
(* Schema registry: a fragment of parquet.ttypes (thrift_spec tables).     *)

None == [k |-> "none"]

FieldDef(id, type, name, cls) == [id |-> id, type |-> type, name |-> name, cls |-> cls]

\* thrift_spec of each struct class: id, TType, name, nested class
\* (for a LIST field: the element class, "" when the elements are primitive)
Registry ==
    [ FileMetaData |->
        { FieldDef(1, "I32", "version", ""),
          FieldDef(2, "LIST", "schema", "SchemaElement"),
          FieldDef(3, "I64", "num_rows", ""),
          FieldDef(4, "LIST", "row_groups", "RowGroup"),
          FieldDef(8, "STRUCT", "encryption_algorithm", "EncryptionAlgorithm") },
      SchemaElement |->
        { FieldDef(1, "I32", "type", ""),
          FieldDef(4, "STRING", "name", ""),
          FieldDef(10, "STRUCT", "logicalType", "LogicalType") },
      LogicalType |->
        { FieldDef(8, "STRUCT", "TIMESTAMP", "TimestampType") },
      TimestampType |->
        { FieldDef(2, "STRUCT", "unit", "TimeUnit") },
      TimeUnit |->
        { FieldDef(1, "STRUCT", "MILLIS", "MilliSeconds") },
      MilliSeconds |-> {},
      EncryptionAlgorithm |->
        { FieldDef(2, "STRUCT", "AES_GCM_CTR_V1", "AesGcmCtrV1") },
      AesGcmCtrV1 |->
        { FieldDef(1, "STRING", "aad_prefix", "") },
      RowGroup |->
        { FieldDef(1, "LIST", "columns", "ColumnChunk"),
          FieldDef(3, "I64", "num_rows", "") },
      ColumnChunk |->
        { FieldDef(2, "I64", "file_offset", ""),
          FieldDef(3, "STRUCT", "meta_data", "ColumnMetaData") },
      ColumnMetaData |->
        { FieldDef(7, "I64", "total_compressed_size", "") },
      SortingColumn |->
        { FieldDef(1, "I32", "column_idx", ""),
          FieldDef(2, "BOOL", "descending", ""),
          FieldDef(3, "BOOL", "nulls_first", "") },
      KeyValue |->
        { FieldDef(1, "STRING", "key", ""),
          FieldDef(2, "STRING", "value", "") } ]

Classes == DOMAIN Registry

Fields(cls) == IF cls \in Classes THEN Registry[cls] ELSE {}

FieldIds(cls) == { f.id : f \in Fields(cls) }

HasField(cls, id) == \E f \in Fields(cls) : f.id = id

FieldOf(cls, id) == CHOOSE f \in Fields(cls) : f.id = id

IsPrim(type) == type \in {"I32", "I64", "STRING", "BOOL"}

\* which int-valued fields the model lets vary (the rest read 0)
ValDom(cls, id) ==
    IF (cls = "ColumnChunk" /\ id = 2) \/ (cls = "ColumnMetaData" /\ id = 7)
    THEN 0..MaxIntVal ELSE {0}

-----------------------------------------------------------------------------
(* Enum tables: a fragment of the enum classes of parquet.ttypes.          *)

\* a Python str, apart from None
Name(s) == [k |-> "str", v |-> s]

FromZero(names) == [code \in 0..(Len(names) - 1) |-> names[code + 1]]

\* the class attribute _VALUES_TO_NAMES; Encoding has no code 1
_VALUES_TO_NAMES(enum_class) ==
    CASE enum_class = "Type" ->
           FromZero(<<"BOOLEAN", "INT32", "INT64", "INT96", "FLOAT", "DOUBLE",
                      "BYTE_ARRAY", "FIXED_LEN_BYTE_ARRAY">>)
      [] enum_class = "FieldRepetitionType" ->
           FromZero(<<"REQUIRED", "OPTIONAL", "REPEATED">>)
      [] enum_class = "CompressionCodec" ->
           FromZero(<<"UNCOMPRESSED", "SNAPPY", "GZIP", "LZO", "BROTLI", "LZ4",
                      "ZSTD", "LZ4_RAW">>)
      [] enum_class = "Encoding" ->
           [code \in (0..9) \ {1} |->
              FromZero(<<"PLAIN", "", "PLAIN_DICTIONARY", "RLE", "BIT_PACKED",
                         "DELTA_BINARY_PACKED", "DELTA_LENGTH_BYTE_ARRAY",
                         "DELTA_BYTE_ARRAY", "RLE_DICTIONARY", "BYTE_STREAM_SPLIT">>)[code]]

\* dict.get(value, default) on the table of enum_class
NamesGet(enum_class, value, default) ==
    IF value \in DOMAIN _VALUES_TO_NAMES(enum_class)
    THEN Name(_VALUES_TO_NAMES(enum_class)[value]) ELSE default

\* v2: "" stands for None
get_enum_class_for_field(field_name, struct_name) ==
    IF field_name \in {"encodings", "encoding"} THEN "Encoding"
    ELSE CASE field_name = "type" /\ struct_name \in {"ColumnMetaData", "SchemaElement"} -> "Type"
           [] field_name = "repetition_type" /\ struct_name = "SchemaElement" -> "FieldRepetitionType"
           [] field_name = "codec" /\ struct_name = "ColumnMetaData" -> "CompressionCodec"
           [] OTHER -> ""

\* v3: enum_map.get(parent_class, {}).get(field_name), "" for None
enum_map(parent_class, field_name) ==
    CASE parent_class = "ColumnMetaData" /\ field_name = "codec" -> "CompressionCodec"
      [] parent_class = "ColumnMetaData" /\ field_name = "type" -> "Type"
      [] parent_class = "ColumnMetaData" /\ field_name = "encodings" -> "Encoding"
      [] parent_class = "SchemaElement" /\ field_name = "type" -> "Type"
      [] parent_class = "SchemaElement" /\ field_name = "repetition_type" -> "FieldRepetitionType"
      [] OTHER -> ""

-----------------------------------------------------------------------------
(* Wire sizes of the compact protocol *)

\* a field header is one byte when 0 < fid - last_fid <= 15, else the type
\* byte is followed by the zigzag varint of the id (one byte for ids < 64)
HdrLen(last, fid) == IF fid - last \in 1..15 THEN 1 ELSE 2

StopLen == 1

ListHdrLen == 1

\* varints of small values take one byte; a string is its length byte and
\* one character; a bool travels in the field header
PrimLen(type) ==
    CASE type = "BOOL" -> 0
      [] type = "STRING" -> 2
      [] OTHER -> 1

-----------------------------------------------------------------------------
(* Driver: the generated read() methods of the struct classes.             *)

Frame(k, cls, phase) ==
    [k |-> k, cls |-> cls, phase |-> phase, last |-> 0, fid |-> 0, ft |-> "STOP",
     at |-> 0, fst |-> 0, fat |-> 0, note |-> "", n |-> 0, obj |-> [i \in FieldIds(cls) |-> None], items |-> <<>>]

Top == stk[Len(stk)]

Pop(s) == SubSeq(s, 1, Len(s) - 1)

SetTop(s, f) == [s EXCEPT ![Len(s)] = f]

\* a read struct: its class and fields, and the bytes its read() consumed
StructVal(f) == [k |-> "struct", cls |-> f.cls, f |-> f.obj, at |-> f.at, end |-> pos]

ListVal(f) == [k |-> "list", items |-> f.items]

PrimVal(v) == [k |-> "prim", v |-> v]

\* what a field of a read object holds: the value, and where the stream
\* held its header (hr) and where its value ended
Slot(val, hr, end) == [v |-> val, hr |-> hr, end |-> end]

\* a finished value is handed to the frame below: a struct frame stores it
\* in the field being read, a list frame appends it and starts the next
\* element
Deliver(s, val) ==
    IF s = <<>> THEN s
    ELSE LET t == s[Len(s)] IN
        IF t.k = "struct"
        THEN SetTop(s, [t EXCEPT !.phase = "fend",
                                 !.obj = IF t.fid \in DOMAIN t.obj
                                         THEN [t.obj EXCEPT ![t.fid] =
                                                 Slot(val, <<t.fst, t.fat>>, pos)]
                                         ELSE t.obj])
        ELSE LET t2 == [t EXCEPT !.items = Append(t.items, val), !.n = t.n - 1] IN
             IF t2.n > 0
             THEN Append(SetTop(s, t2), Frame("struct", t.cls, "begin"))
             ELSE SetTop(s, [t2 EXCEPT !.phase = "lend"])

\* the headers the stream may hold next for a struct of class cls:
\* STOP, any field of the class, or one of the extra headers (ZeroHdr is a
\* non-STOP header that carries the explicit field id 0)
StopHdr == [id |-> 0, type |-> "STOP", name |-> "", cls |-> ""]

ZeroHdr == [id |-> 0, type |-> "I32", name |-> "", cls |-> ""]

\* a header of a field that no struct of parquet.ttypes defines (the ids of
\* FileMetaData end at 9, of SchemaElement at 10, of RowGroup at 7)
UnknownHdr == [id |-> 12, type |-> "I32", name |-> "", cls |-> ""]

HdrSize(h, last) == IF h.type = "STOP" THEN StopLen ELSE HdrLen(last, h.id)

Headers(cls, extra) ==
    {StopHdr} \cup (IF hdrs < MaxHeaders THEN Fields(cls) \cup extra ELSE {})

\* readStructBegin of TCompactProtocol: last_fid is saved and reset to 0
\* (at: the cursor when the struct began; fst, fat: the cursor before and
\* after the header of the field being read; note: what the engine wants
\* remembered about the moment the header was read)
DStructBegin(s) ==
    SetTop(s, [s[Len(s)] EXCEPT !.phase = "fields", !.last = 0, !.at = pos])

\* readFieldBegin: the reader dispatches on the id and the type it got
DFieldBegin(s, h, note) ==
    LET t == s[Len(s)] IN
    IF h.type = "STOP" THEN SetTop(s, [t EXCEPT !.phase = "end"])
    ELSE LET t2 == [t EXCEPT !.fid = h.id, !.ft = h.type, !.last = h.id,
                             !.fst = pos, !.fat = pos + HdrSize(h, t.last),
                             !.note = note] IN
         CASE h.type = "STRUCT" ->
                Append(SetTop(s, [t2 EXCEPT !.phase = "sub"]),
                       Frame("struct", h.cls, "begin"))
           [] h.type = "LIST" ->
                Append(SetTop(s, [t2 EXCEPT !.phase = "sub"]),
                       Frame("list", h.cls, "lbegin"))
           [] OTHER -> SetTop(s, [t2 EXCEPT !.phase = "value"])

\* a primitive read stores the value in the field (skip() drops it)
DPrim(s, val) ==
    LET t == s[Len(s)] IN
    SetTop(s, [t EXCEPT !.phase = "fend",
                        !.obj = IF t.fid \in DOMAIN t.obj
                                THEN [t.obj EXCEPT ![t.fid] =
                                        Slot(PrimVal(val), <<t.fst, t.fat>>,
                                             pos + PrimLen(t.ft))]
                                ELSE t.obj])

DFieldEnd(s) == SetTop(s, [s[Len(s)] EXCEPT !.phase = "fields"])

\* readListBegin: the list loop reads n elements
DListBegin(s, n) ==
    LET t == [s[Len(s)] EXCEPT !.n = n] IN
    IF n > 0 THEN Append(SetTop(s, [t EXCEPT !.phase = "elems"]),
                         Frame("struct", t.cls, "begin"))
    ELSE SetTop(s, [t EXCEPT !.phase = "lend"])

DListEnd(s) == Deliver(Pop(s), ListVal(s[Len(s)]))

DStructEnd(s) == Deliver(Pop(s), StructVal(s[Len(s)]))

\* guards: which hook the reader calls next
AtStructBegin == pc = "decode" /\ stk # <<>> /\ Top.k = "struct" /\ Top.phase = "begin"
AtFieldBegin == pc = "decode" /\ stk # <<>> /\ Top.k = "struct" /\ Top.phase = "fields"
AtPrim == pc = "decode" /\ stk # <<>> /\ Top.k = "struct" /\ Top.phase = "value"
AtFieldEnd == pc = "decode" /\ stk # <<>> /\ Top.k = "struct" /\ Top.phase = "fend"
AtStructEnd == pc = "decode" /\ stk # <<>> /\ Top.k = "struct" /\ Top.phase = "end"
AtListBegin == pc = "decode" /\ stk # <<>> /\ Top.k = "list" /\ Top.phase = "lbegin"
AtListEnd == pc = "decode" /\ stk # <<>> /\ Top.k = "list" /\ Top.phase = "lend"

\* the struct on top is an element of a list (its reader was called by the
\* list loop), not the value of a struct field
TopIsElement == Len(stk) > 1 /\ stk[Len(stk) - 1].k = "list"

-----------------------------------------------------------------------------
(* What every decode step leaves alone, and the steps of the driver.       *)

Fixed == UNCHANGED <<engine, limit>>

\* an exception leaves the reader where it was
Raise == pc' = "error" /\ UNCHANGED <<pos, stk, hdrs, elems, root>>

StepStructBegin ==
    /\ stk' = DStructBegin(stk)
    /\ UNCHANGED <<pc, pos, hdrs, elems, root>>

StepFieldBegin(h, note) ==
    /\ stk' = DFieldBegin(stk, h, note)
    /\ pos' = pos + HdrSize(h, Top.last)
    /\ hdrs' = IF h.type = "STOP" THEN hdrs ELSE hdrs + 1
    /\ UNCHANGED <<pc, elems, root>>

StepPrim(val) ==
    /\ stk' = DPrim(stk, val)
    /\ pos' = pos + PrimLen(Top.ft)
    /\ UNCHANGED <<pc, hdrs, elems, root>>

StepFieldEnd ==
    /\ stk' = DFieldEnd(stk)
    /\ UNCHANGED <<pc, pos, hdrs, elems, root>>

StepListBegin(n) ==
    /\ stk' = DListBegin(stk, n)
    /\ pos' = pos + ListHdrLen
    /\ elems' = elems + n
    /\ UNCHANGED <<pc, hdrs, root>>

StepListEnd ==
    /\ stk' = DListEnd(stk)
    /\ UNCHANGED <<pc, pos, hdrs, elems, root>>

\* the root struct's readStructEnd ends the decode
StepStructEnd ==
    /\ stk' = DStructEnd(stk)
    /\ IF Len(stk) = 1
       THEN pc' = "done" /\ root' = StructVal(Top)
       ELSE UNCHANGED <<pc, root>>
    /\ UNCHANGED <<pos, hdrs, elems>>

-----------------------------------------------------------------------------
(* v3 engine: parquet_lens_v3.OffsetRecordingProtocol.                     *)
(* A context is the dict the engine keeps per struct, field or element;    *)
(* range -1 stands for None; by identifies the hook call that made it.     *)

NoTag == <<"none", 0>>

type_map(t) ==
    CASE t = "I32" -> "i32" [] t = "I64" -> "i64" [] t = "STRING" -> "string"
      [] t = "BOOL" -> "bool" [] t = "STRUCT" -> "struct" [] t = "LIST" -> "list"

_is_complex_type(t) == t \in {"STRUCT", "LIST"}

Ctx(name, type, type_class, spec, from, complex, by) ==
    [name |-> name, type |-> type, type_class |-> type_class, spec |-> spec,
     range_from |-> from, range_to |-> -1, value |-> <<>>, scalar |-> None,
     complex |-> complex, by |-> by, enum_type |-> "", enum_name |-> None]

\* a raw value appended to a list-valued context
RawValue(v) ==
    [name |-> "", type |-> "raw", type_class |-> "", spec |-> "",
     range_from |-> -1, range_to |-> -1, value |-> <<>>, scalar |-> PrimVal(v),
     complex |-> FALSE, by |-> NoTag, enum_type |-> "", enum_name |-> None]

V3Init(name, struct_class) ==
    [cur |-> Ctx(name, "struct", struct_class, struct_class, -1, TRUE, <<"root", 0>>),
     parents |-> <<>>]

_new_child(e, child) == [cur |-> child, parents |-> Append(e.parents, e.cur)]

_finish_child(e) ==
    LET parent == e.parents[Len(e.parents)] IN
    [cur |-> [parent EXCEPT !.value = Append(@, e.cur)], parents |-> Pop(e.parents)]

_has_parent_list(e) == e.parents # <<>> /\ e.parents[Len(e.parents)].type = "list"

V3readStructBegin(e, p) ==
    LET e1 == IF e.cur.type = "list"
              THEN _new_child(e, Ctx("element", "struct", e.cur.spec, e.cur.spec,
                                     -1, TRUE, <<"e", p>>))
              ELSE e
    IN [e1 EXCEPT !.cur.range_from = p]

V3readStructEnd(e, p) ==
    LET e1 == [e EXCEPT !.cur.range_to = p] IN
    IF _has_parent_list(e1) THEN _finish_child(e1) ELSE e1

\* p is the cursor after the header
V3readFieldBegin(e, h, p) ==
    IF h.id > 0
    THEN LET f == FieldOf(e.cur.spec, h.id) IN
         _new_child(e, Ctx(f.name, type_map(f.type),
                           IF f.type = "STRUCT" THEN f.cls ELSE "",
                           f.cls, p, _is_complex_type(f.type), <<"f", p>>))
    ELSE e

\* a readFieldEnd that forgets to record where the value ended
V3readFieldEndNoRange(e, p) == _finish_child(e)

V3readFieldEnd(e, p) == _finish_child([e EXCEPT !.cur.range_to = p])

_is_enum(parent_class, field_name) == enum_map(parent_class, field_name) # ""

\* the name of the current value, or of every entry when the value is a list
_get_enum(cur, parent_class) ==
    LET enum_class == enum_map(parent_class, cur.name) IN
    IF cur.complex
    THEN [i \in 1..Len(cur.value) |-> NamesGet(enum_class, cur.value[i].scalar.v, None)]
    ELSE NamesGet(enum_class, cur.scalar.v, None)

_annotate_enum(e) ==
    IF /\ e.parents # <<>>
       /\ e.parents[Len(e.parents)].type \in {"struct", "list"}
       /\ _is_enum(e.parents[Len(e.parents)].type_class, e.cur.name)
    THEN [e EXCEPT !.cur.enum_type = enum_map(e.parents[Len(e.parents)].type_class, e.cur.name),
                   !.cur.enum_name = _get_enum(e.cur, e.parents[Len(e.parents)].type_class)]
    ELSE e

_append_value(e, v) ==
    _annotate_enum(IF e.cur.complex
                   THEN [e EXCEPT !.cur.value = Append(@, RawValue(v))]
                   ELSE [e EXCEPT !.cur.scalar = PrimVal(v)])

\* thrift_class().read(protocol) over a stream of limit bytes
V3ReadStructBegin ==
    /\ engine = "v3" /\ AtStructBegin
    /\ StepStructBegin
    /\ v3' = V3readStructBegin(v3, pos)
    /\ Fixed /\ UNCHANGED <<v1, v2, out, nav>>

V3ReadFieldBegin ==
    /\ engine = "v3" /\ AtFieldBegin
    /\ \E h \in Headers(Top.cls, {ZeroHdr, UnknownHdr}) :
         LET p == pos + HdrSize(h, Top.last) IN
         IF v3.cur.type # "struct" \/ p > limit
         THEN Raise /\ UNCHANGED v3
         ELSE IF h.id > 0 /\ ~HasField(v3.cur.spec, h.id)
         THEN /\ pc' = "error" /\ pos' = p
              /\ UNCHANGED <<stk, hdrs, elems, root, v3>>
         ELSE StepFieldBegin(h, "") /\ v3' = V3readFieldBegin(v3, h, p)
    /\ Fixed /\ UNCHANGED <<v1, v2, out, nav>>

V3ReadPrim ==
    /\ engine = "v3" /\ AtPrim
    /\ \E val \in ValDom(Top.cls, Top.fid) :
         IF pos + PrimLen(Top.ft) > limit
         THEN Raise /\ UNCHANGED v3
         ELSE StepPrim(val) /\ v3' = _append_value(v3, val)
    /\ Fixed /\ UNCHANGED <<v1, v2, out, nav>>

V3ReadListBegin ==
    /\ engine = "v3" /\ AtListBegin
    /\ \E n \in 0..(MaxElems - elems) :
         IF pos + ListHdrLen > limit THEN Raise ELSE StepListBegin(n)
    /\ Fixed /\ UNCHANGED <<v1, v2, v3, out, nav>>

V3ReadListEnd ==
    /\ engine = "v3" /\ AtListEnd
    /\ StepListEnd
    /\ Fixed /\ UNCHANGED <<v1, v2, v3, out, nav>>

V3ReadFieldEnd ==
    /\ engine = "v3" /\ AtFieldEnd
    /\ IF v3.parents = <<>>
       THEN Raise /\ v3' = [v3 EXCEPT !.cur.range_to = pos]
       ELSE StepFieldEnd /\ v3' = V3readFieldEnd(v3, pos)
    /\ Fixed /\ UNCHANGED <<v1, v2, out, nav>>

V3ReadStructEnd ==
    /\ engine = "v3" /\ AtStructEnd
    /\ StepStructEnd
    /\ v3' = V3readStructEnd(v3, pos)
    /\ Fixed /\ UNCHANGED <<v1, v2, out, nav>>

-----------------------------------------------------------------------------
(* v3 segments: create_segment / create_segment_from_offset_info           *)

create_segment(range_start, range_end, name, value, metadata) ==
    [offset |-> range_start, length |-> range_end - range_start, name |-> name,
     value |-> value, metadata |-> metadata]

RECURSIVE create_segment_from_offset_info(_, _)
create_segment_from_offset_info(info, base_offset) ==
    IF info.type = "raw" THEN info
    ELSE create_segment(
           base_offset + info.range_from, base_offset + info.range_to, info.name,
           IF info.type \in {"struct", "list"}
           THEN [i \in 1..Len(info.value) |->
                    create_segment_from_offset_info(info.value[i], base_offset)]
           ELSE <<info.scalar>>,
           [type |-> info.type, type_class |-> info.type_class])

BaseOffsets == {0, 4}

\* read_thrift_segment, after obj.read(protocol) returned
V3Return ==
    /\ engine = "v3" /\ pc = "done"
    /\ \E base_offset \in BaseOffsets :
         out' = create_segment_from_offset_info(v3.cur, base_offset)
    /\ pc' = "returned"
    /\ Fixed /\ UNCHANGED <<pos, stk, hdrs, elems, root, v1, v2, v3, nav>>

StreamLens == {MaxFooterLen - 5, MaxFooterLen}

InitV3 ==
    /\ pc = "decode" /\ engine = "v3" /\ pos = 0
    /\ limit \in StreamLens
    /\ stk = <<Frame("struct", "FileMetaData", "begin")>>
    /\ hdrs = 0 /\ elems = 0 /\ root = None
    /\ v3 = V3Init("footer", "FileMetaData")
    /\ v1 = None /\ v2 = None /\ out = None /\ nav = None

NextV3 ==
    \/ V3ReadStructBegin
    \/ V3ReadFieldBegin
    \/ V3ReadPrim
    \/ V3ReadListBegin
    \/ V3ReadListEnd
    \/ V3ReadFieldEnd
    \/ V3ReadStructEnd
    \/ V3Return

SpecV3 == InitV3 /\ [][NextV3]_vars

-----------------------------------------------------------------------------
(* Properties of the v3 engine                                             *)

IsCtx(c) == c.type # "raw"

Kids(c) == SelectSeq(c.value, IsCtx)

RECURSIVE CtxNested(_)
CtxNested(c) ==
    LET ks == Kids(c) IN
    /\ c.range_from <= c.range_to
    /\ \A i \in 1..Len(ks) :
         /\ c.range_from <= ks[i].range_from
         /\ ks[i].range_to <= c.range_to
         /\ CtxNested(ks[i])
    /\ \A i \in 1..(Len(ks) - 1) : ks[i].range_to <= ks[i + 1].range_from

IsSeg(x) == "offset" \in DOMAIN x

SegKids(sg) ==
    IF sg.metadata.type \in {"struct", "list"} THEN SelectSeq(sg.value, IsSeg) ELSE <<>>

RECURSIVE SegNested(_)
SegNested(sg) ==
    LET ks == SegKids(sg) IN
    /\ sg.length >= 0
    /\ \A i \in 1..Len(ks) :
         /\ sg.offset <= ks[i].offset
         /\ ks[i].offset + ks[i].length <= sg.offset + sg.length
         /\ SegNested(ks[i])
    /\ \A i \in 1..(Len(ks) - 1) : ks[i].offset + ks[i].length <= ks[i + 1].offset

\* C4: in the context tree of a completed v3 decode, and in the segment tree
\* derived from it, every child's range lies within its parent's range and
\* the children of one struct or list do not overlap and are in ascending
\* offset order.
C4_Nested ==
    (engine = "v3" /\ pc \in {"done", "returned"}) =>
        /\ CtxNested(v3.cur)
        /\ (pc = "returned" => SegNested(out))

\* a returned footer that holds a list of two elements with a field each
\* and a struct field with a struct field inside
C4_Witness ==
    /\ engine = "v3" /\ pc = "returned"
    /\ \E i \in 1..Len(out.value) :
         /\ out.value[i].metadata.type = "list"
         /\ Len(out.value[i].value) = 2
         /\ \A j \in 1..2 : Len(out.value[i].value[j].value) > 0
    /\ \E i \in 1..Len(out.value) :
         /\ out.value[i].metadata.type = "struct"
         /\ Len(out.value[i].value) > 0

\* the context the engine is about to pop, and whether a step popped
Popped == Len(v3'.parents) < Len(v3.parents)

\* C7: strict stack discipline of the v3 engine: a readFieldEnd pops the
\* context its own readFieldBegin pushed, a readStructEnd pops only the
\* element context its own readStructBegin pushed, a STOP header pushes
\* nothing, and a complete decode ends with an empty parent stack at the
\* root context.
C7_StackDiscipline ==
    [][ engine = "v3" =>
          /\ (AtFieldEnd /\ Popped) => v3.cur.by = <<"f", Top.fat>>
          /\ (AtStructEnd /\ Popped) => (TopIsElement /\ v3.cur.by = <<"e", Top.at>>)
          /\ (AtFieldBegin /\ hdrs' = hdrs /\ pc' = pc) => v3' = v3
          /\ (pc = "decode" /\ pc' = "done") =>
                (v3'.parents = <<>> /\ v3'.cur.by = <<"root", 0>>)
      ]_vars

-----------------------------------------------------------------------------
(* v3 navigator: parse_parquet_file.  The decodes it starts are kept by    *)
(* what they leave behind: the bytes they consumed and the sizes they      *)
(* read.                                                                   *)

Seg(range_start, range_end, name) == create_segment(range_start, range_end, name, None, None)

\* bytes a struct decode that starts size bytes before the footer length
\* word can consume when it returns: TFileTransport.read has no upper
\* bound, so the decode may run into the length word (whose first byte is
\* size, the next three 0) and the trailing PAR1 (0x50 has the STOP nibble)
FooterConsumed(size) ==
    (1..size)
    \cup (IF size % 16 = 0 THEN {size + 1} ELSE {})
    \cup (IF size > 0 THEN {size + k : k \in 2..5} ELSE {})

\* insertion of x behind every segment whose offset is not larger
InsertByOffset(sorted, x) ==
    LET k == Cardinality({i \in 1..Len(sorted) : sorted[i].offset <= x.offset}) IN
    SubSeq(sorted, 1, k) \o <<x>> \o SubSeq(sorted, k + 1, Len(sorted))

\* segments.sort(key=lambda s: s["offset"]): a stable sort
RECURSIVE SortByOffset(_)
SortByOffset(segments) ==
    IF segments = <<>> THEN <<>>
    ELSE InsertByOffset(SortByOffset(Pop(segments)), segments[Len(segments)])

\* the loop of fill_gaps from the i-th segment on, offset being the end of
\* the segment before
RECURSIVE FillFrom(_, _, _)
FillFromNoGap(segments, i, offset) ==
    IF i > Len(segments) THEN <<>>
    ELSE <<segments[i]>>
         \o FillFrom(segments, i + 1, segments[i].offset + segments[i].length)

FillFrom(segments, i, offset) ==
    IF i > Len(segments) THEN <<>>
    ELSE (IF segments[i].offset # offset
          THEN <<Seg(offset, segments[i].offset, "unknown")>> ELSE <<>>)
         \o <<segments[i]>>
         \o FillFrom(segments, i + 1, segments[i].offset + segments[i].length)

fill_gaps(segments, file_size) ==
    LET offset == IF segments = <<>> THEN 0
                  ELSE segments[Len(segments)].offset + segments[Len(segments)].length
    IN FillFrom(segments, 1, 0)
       \o (IF offset # file_size THEN <<Seg(offset, file_size, "unknown")>> ELSE <<>>)

FileSizes == {MaxFileSize - 2, MaxFileSize}

\* offsets the footer may give for a page or an index
RegionOffsets(file_size) == {0, 4, file_size - 4, file_size}

\* bytes a PageHeader decode may consume (a header that carries
\* compressed_page_size takes at least three) and bytes an index decode may
\* consume (at least the STOP byte)
PageHdrLens == {3}

IndexLens == {1}

\* compressed_page_size values a page header may hold
PageSizes == {-1, 0, 2}

InitNav ==
    /\ engine = "nav" /\ pc = "open"
    /\ \E file_size \in FileSizes, footer_size \in 0..MaxFileSize,
          header_ok \in BOOLEAN, footer_magic_ok \in BOOLEAN :
         /\ footer_size <= file_size - 7
         /\ nav = [file_size |-> file_size, footer_size |-> footer_size,
                   header_ok |-> header_ok, footer_magic_ok |-> footer_magic_ok,
                   segments |-> <<>>, regions |-> 0, footer_end |-> -1]
    /\ pos = 0 /\ limit = 0 /\ stk = <<>> /\ hdrs = 0 /\ elems = 0
    /\ root = None /\ v1 = None /\ v2 = None /\ v3 = None /\ out = None

NavRest == UNCHANGED <<engine, pos, limit, stk, hdrs, elems, root, v1, v2, v3>>

\* the magic numbers and the footer length
NavOpen ==
    /\ engine = "nav" /\ pc = "open"
    /\ IF ~nav.header_ok \/ ~nav.footer_magic_ok
       THEN pc' = "error" /\ UNCHANGED nav
       ELSE /\ pc' = "footer"
            /\ nav' = [nav EXCEPT !.segments =
                         << Seg(0, 4, "magic_number"),
                            Seg(nav.file_size - 4, nav.file_size, "magic_number"),
                            Seg(nav.file_size - 8, nav.file_size - 4, "footer_length") >>]
    /\ UNCHANGED out /\ NavRest

\* read_thrift_segment(f, footer_offset, "footer", FileMetaData)
NavReadFooter ==
    /\ engine = "nav" /\ pc = "footer"
    /\ LET footer_offset == nav.file_size - 8 - nav.footer_size IN
       IF footer_offset < 0
       THEN pc' = "error" /\ UNCHANGED nav
       ELSE \/ pc' = "error" /\ UNCHANGED nav
            \/ \E n \in FooterConsumed(nav.footer_size), has_row_groups \in BOOLEAN :
                 \* a footer that holds row_groups takes its field header, its
                 \* list header and the STOP byte; without row_groups the loop
                 \* over footer.row_groups raises
                 /\ has_row_groups => n >= 3
                 /\ pc' = IF has_row_groups THEN "regions" ELSE "error"
                 /\ nav' = [nav EXCEPT
                       !.segments = Append(@, Seg(footer_offset, footer_offset + n, "footer")),
                       !.footer_end = footer_offset + n]
    /\ UNCHANGED out /\ NavRest

\* read_pages / read_dictionary_page: a page header and its page data
NavReadPage ==
    /\ engine = "nav" /\ pc = "regions" /\ nav.regions < MaxRegions
    /\ \E offset \in RegionOffsets(nav.file_size), n \in PageHdrLens, size \in PageSizes :
         IF offset + n > nav.file_size
         THEN pc' = "error" /\ UNCHANGED nav
         ELSE /\ nav' = [nav EXCEPT
                    !.segments = @ \o << Seg(offset, offset + n, "page"),
                                        Seg(offset + n, offset + n + size, "page_data") >>,
                    !.regions = @ + 1]
              /\ UNCHANGED pc
    /\ UNCHANGED out /\ NavRest

\* read_column_index / read_offset_index / read_bloom_filter
NavReadIndex ==
    /\ engine = "nav" /\ pc = "regions" /\ nav.regions < MaxRegions
    /\ \E offset \in RegionOffsets(nav.file_size), n \in IndexLens :
         IF offset + n > nav.file_size
         THEN pc' = "error" /\ UNCHANGED nav
         ELSE /\ nav' = [nav EXCEPT
                    !.segments = Append(@, Seg(offset, offset + n, "column_index")),
                    !.regions = @ + 1]
              /\ UNCHANGED pc
    /\ UNCHANGED out /\ NavRest

\* the sort by offset and fill_gaps
NavFinish ==
    /\ engine = "nav" /\ pc = "regions"
    /\ out' = fill_gaps(SortByOffset(nav.segments), nav.file_size)
    /\ pc' = "returned"
    /\ UNCHANGED nav /\ NavRest

NextNav ==
    \/ NavOpen
    \/ NavReadFooter
    \/ NavReadPage
    \/ NavReadIndex
    \/ NavFinish

SpecNav == InitNav /\ [][NextNav]_vars

-----------------------------------------------------------------------------
(* Properties of the v3 navigator                                          *)

InSeq(x, sq) == \E i \in 1..Len(sq) : sq[i] = x

\* C1: the segment list parse_parquet_file returns starts at offset 0,
\* every following segment starts where the one before it ends, the last
\* one ends at file_size, every byte of the file lies in some segment, every
\* recognised region is in the list and every other entry is an "unknown"
\* segment.
C1_FullCoverage ==
    (engine = "nav" /\ pc = "returned") =>
        /\ out # <<>>
        /\ out[1].offset = 0
        /\ \A i \in 1..(Len(out) - 1) : out[i + 1].offset = out[i].offset + out[i].length
        /\ out[Len(out)].offset + out[Len(out)].length = nav.file_size
        /\ \A b \in 0..(nav.file_size - 1) :
             \E i \in 1..Len(out) : out[i].offset <= b /\ b < out[i].offset + out[i].length
        /\ \A i \in 1..Len(nav.segments) : InSeq(nav.segments[i], out)
        /\ \A i \in 1..Len(out) : out[i].name = "unknown" \/ InSeq(out[i], nav.segments)

\* a returned list with a gap filled between two recognised regions and
\* with a page among them
C1_Witness ==
    /\ engine = "nav" /\ pc = "returned"
    /\ \E i \in 2..(Len(out) - 1) : out[i].name = "unknown" /\ out[i].length > 0
    /\ \E i \in 1..Len(out) : out[i].name = "page"

\* C6: the decode of the footer never consumes a byte at or beyond
\* file_size - 8, so the footer segment lies within the footer_length bytes
\* that start at footer_start = file_size - 8 - footer_length.
C6_NoReadPastFooter ==
    (engine = "nav" /\ nav.footer_end >= 0) => nav.footer_end <= nav.file_size - 8

-----------------------------------------------------------------------------
(* v1 engine: parquet_lens.OffsetRecordingProtocol.                        *)
(* The schema a spec names is kept by its class name; "" is None; ranges   *)
(* that are not recorded are <<>>.                                         *)

NoId == -1

NoDetails == [x \in {} |-> 0]

V1Init(struct_class) ==
    [field_details |-> NoDetails, current_field_name |-> "", current_field_id |-> NoId,
     field_total_start |-> NoId, parent_spec_stack |-> <<>>,
     current_spec |-> struct_class, struct_nesting_level |-> 0]

_get_field_name_from_spec(field_id, spec) ==
    IF HasField(spec, field_id) THEN FieldOf(spec, field_id).name ELSE ""

\* f"{level}_{name}_{fid}"
V1Key(level, name, fid) == ToString(level) \o "_" \o name \o "_" \o ToString(fid)

V1Put(details, key, entry) == (key :> entry) @@ details

V1readStructBegin(e) == [e EXCEPT !.struct_nesting_level = @ + 1]

V1readStructEnd(e) ==
    LET e1 == [e EXCEPT !.struct_nesting_level = @ - 1] IN
    IF e1.parent_spec_stack # <<>>
    THEN [e1 EXCEPT !.current_spec = e.parent_spec_stack[Len(e.parent_spec_stack)],
                    !.parent_spec_stack = Pop(@)]
    ELSE e1

\* the nested-struct test of readFieldBegin: the entry of fid in the active
\* spec carries a struct class
V1NestedClass(e, fid) ==
    IF HasField(e.current_spec, fid) /\ FieldOf(e.current_spec, fid).type = "STRUCT"
    THEN FieldOf(e.current_spec, fid).cls ELSE ""

\* start and end are the cursor before and after the header
V1readFieldBegin(e, h, start, end) ==
    LET found == _get_field_name_from_spec(h.id, e.current_spec)
        name == IF found = "" THEN "_unknown_field_id_" \o ToString(h.id) \o "_" ELSE found
        field_key == V1Key(e.struct_nesting_level, name, h.id)
        old == IF field_key \in DOMAIN e.field_details THEN e.field_details[field_key]
               ELSE [hdr |-> <<>>, val |-> <<>>, total |-> <<>>,
                     nesting_level |-> 0, field_name |-> "", field_id |-> 0]
        e1 == [e EXCEPT !.field_total_start = start, !.current_field_id = h.id,
                        !.current_field_name = name]
        e2 == IF h.type # "STOP"
              THEN [e1 EXCEPT !.field_details =
                      V1Put(@, field_key,
                            [old EXCEPT !.hdr = <<start, end>>,
                                        !.nesting_level = e.struct_nesting_level,
                                        !.field_name = name, !.field_id = h.id])]
              ELSE e1
    IN IF h.type = "STRUCT" /\ V1NestedClass(e, h.id) # ""
       THEN [e2 EXCEPT !.parent_spec_stack = Append(@, e.current_spec),
                       !.current_spec = V1NestedClass(e, h.id)]
       ELSE e2

V1readFieldEnd(e, p) ==
    LET field_key == V1Key(e.struct_nesting_level, e.current_field_name, e.current_field_id)
        e1 == IF e.current_field_name # "" /\ e.current_field_id # NoId
                 /\ field_key \in DOMAIN e.field_details
              THEN LET d == e.field_details[field_key] IN
                   IF d.val # <<>>
                   THEN [e EXCEPT !.field_details[field_key].total =
                                     <<e.field_total_start, d.val[2]>>]
                   ELSE IF e.field_total_start # NoId
                   THEN [e EXCEPT !.field_details[field_key].total =
                                     <<e.field_total_start, p>>]
                   ELSE e
              ELSE e
    IN [e1 EXCEPT !.current_field_name = "", !.current_field_id = NoId,
                  !.field_total_start = NoId]

V1_read_primitive(e, value_start_offset, value_end_offset) ==
    LET field_key == V1Key(e.struct_nesting_level, e.current_field_name, e.current_field_id) IN
    IF e.current_field_name # "" /\ e.current_field_id # NoId
       /\ field_key \in DOMAIN e.field_details
    THEN LET e1 == [e EXCEPT !.field_details[field_key].val =
                                <<value_start_offset, value_end_offset>>] IN
         IF e.field_total_start # NoId
         THEN [e1 EXCEPT !.field_details[field_key].total =
                            <<e.field_total_start, value_end_offset>>]
         ELSE e1
    ELSE e

-----------------------------------------------------------------------------
(* v1 output: thrift_to_dict_with_offsets                                  *)

\* the ids of a class in thrift_spec order (the spec tuple is indexed by id)
RECURSIVE Ascending(_)
Ascending(S) ==
    IF S = {} THEN <<>>
    ELSE LET m == CHOOSE x \in S : \A y \in S : x <= y IN <<m>> \o Ascending(S \ {m})

known_required_fields ==
    [ FileMetaData |-> {"version", "schema", "num_rows", "row_groups"},
      SchemaElement |-> {"name"},
      RowGroup |-> {"columns", "total_byte_size", "num_rows"},
      ColumnChunk |-> {"file_path", "file_offset", "meta_data"},
      ColumnMetaData |-> {"type", "encodings", "path_in_schema", "codec", "num_values",
                          "total_uncompressed_size", "total_compressed_size",
                          "data_page_offset"} ]

IsRequired(cls, field_name) ==
    cls \in DOMAIN known_required_fields /\ field_name \in known_required_fields[cls]

Shift(range, base_offset_in_file) ==
    IF range = <<>> THEN <<>>
    ELSE <<range[1] + base_offset_in_file, range[2] + base_offset_in_file>>

\* lexicographic order on tuples of integers of one length
RECURSIVE LexLE(_, _)
LexLE(a, b) ==
    IF a = <<>> THEN TRUE
    ELSE IF a[1] # b[1] THEN a[1] < b[1]
    ELSE LexLE(Tail(a), Tail(b))

\* a sort key that looks at the declaration index only
sort_keyByIndex(field_item) == <<0, 0, 0, field_item.field_id>>

\* (has offset, start offset, original index); the start offset of an item
\* without ranges is infinity: <<1, 0>>, below it <<0, start>>
sort_key(field_item) ==
    LET has_offset == field_item.field_header_range # <<>>
        start == IF has_offset THEN <<0, field_item.field_header_range[1]>>
                 ELSE IF field_item.value_range # <<>>
                 THEN <<0, field_item.value_range[1]>>
                 ELSE <<1, 0>>
    IN <<IF has_offset THEN 0 ELSE 1, start[1], start[2], field_item.field_id>>

InsertByKey(sorted, x) ==
    LET k == Cardinality({i \in 1..Len(sorted) : LexLE(sort_key(sorted[i]), sort_key(x))}) IN
    SubSeq(sorted, 1, k) \o <<x>> \o SubSeq(sorted, k + 1, Len(sorted))

\* temp_fields_data.sort(key=sort_key)
RECURSIVE SortFields(_)
SortFields(items) ==
    IF items = <<>> THEN <<>>
    ELSE InsertByKey(SortFields(Pop(items)), items[Len(items)])

\* a rule that skips every field without a value, required or not
V1OmittedWhenNone(show_undefined_optional, required, processed_value) ==
    ~show_undefined_optional /\ processed_value = None

\* "Skip undefined optional fields if show_undefined_optional is False"
V1Omitted(show_undefined_optional, required, processed_value) ==
    ~show_undefined_optional /\ ~required /\ processed_value = None

RECURSIVE thrift_to_dict_with_offsets(_, _, _, _, _)
\* the entry of one field of thrift_obj, <<>> when the field is skipped
V1FieldData(thrift_obj, field_id, field_details_map, base_offset_in_file, nesting_level, show_undefined_optional) ==
    LET f == FieldOf(thrift_obj.cls, field_id)
        slot == thrift_obj.f[field_id]
        field_value == IF slot = None THEN None ELSE slot.v
        processed_value ==
            IF field_value = None THEN None
            ELSE IF f.type = "LIST"
            THEN [k |-> "list",
                  items |-> [i \in 1..Len(field_value.items) |->
                       thrift_to_dict_with_offsets(field_value.items[i], field_details_map,
                           base_offset_in_file, nesting_level + 1, show_undefined_optional)]]
            ELSE IF f.type = "STRUCT"
            THEN thrift_to_dict_with_offsets(field_value, field_details_map,
                     base_offset_in_file, nesting_level + 1, show_undefined_optional)
            ELSE field_value
        required == IsRequired(thrift_obj.cls, f.name)
        field_key == V1Key(nesting_level, f.name, field_id)
        found == field_key \in DOMAIN field_details_map
    IN IF V1Omitted(show_undefined_optional, required, processed_value)
       THEN <<>>
       ELSE << [field_id |-> field_id, field_name |-> f.name, type |-> f.type,
                value |-> processed_value, required |-> required,
                field_header_range |->
                    IF found THEN Shift(field_details_map[field_key].hdr, base_offset_in_file)
                    ELSE <<>>,
                value_range |->
                    IF found THEN Shift(field_details_map[field_key].val, base_offset_in_file)
                    ELSE <<>>] >>

RECURSIVE V1AllFields(_, _, _, _, _, _)
V1AllFields(thrift_obj, ids, field_details_map, base_offset_in_file, nesting_level, show_undefined_optional) ==
    IF ids = <<>> THEN <<>>
    ELSE V1FieldData(thrift_obj, Head(ids), field_details_map, base_offset_in_file,
                     nesting_level, show_undefined_optional)
         \o V1AllFields(thrift_obj, Tail(ids), field_details_map, base_offset_in_file,
                        nesting_level, show_undefined_optional)

thrift_to_dict_with_offsets(thrift_obj, field_details_map, base_offset_in_file, nesting_level, show_undefined_optional) ==
    IF thrift_obj.k # "struct" THEN thrift_obj
    ELSE LET temp_fields_data ==
                 V1AllFields(thrift_obj, Ascending(FieldIds(thrift_obj.cls)),
                             field_details_map, base_offset_in_file, nesting_level,
                             show_undefined_optional)
         IN [k |-> "dict",
             fields |-> IF nesting_level = 1 THEN SortFields(temp_fields_data)
                        ELSE temp_fields_data]

\* file_metadata_obj.read(protocol) over the footer_length bytes of the
\* footer, held in a TMemoryBuffer
V1Rest == Fixed /\ UNCHANGED <<v2, v3, out, nav>>

V1ReadStructBegin ==
    /\ engine = "v1" /\ AtStructBegin
    /\ StepStructBegin
    /\ v1' = V1readStructBegin(v1)
    /\ V1Rest

V1ReadFieldBegin ==
    /\ engine = "v1" /\ AtFieldBegin
    /\ \E h \in Headers(Top.cls, {}) :
         LET p == pos + HdrSize(h, Top.last) IN
         IF p > limit
         THEN Raise /\ v1' = [v1 EXCEPT !.field_total_start = pos]
         ELSE StepFieldBegin(h, v1.current_spec) /\ v1' = V1readFieldBegin(v1, h, pos, p)
    /\ V1Rest

V1ReadPrim ==
    /\ engine = "v1" /\ AtPrim
    /\ \E val \in ValDom(Top.cls, Top.fid) :
         LET p == pos + PrimLen(Top.ft) IN
         IF p > limit
         THEN Raise /\ UNCHANGED v1
         ELSE StepPrim(val) /\ v1' = V1_read_primitive(v1, pos, p)
    /\ V1Rest

V1ReadListBegin ==
    /\ engine = "v1" /\ AtListBegin
    /\ \E n \in 0..(MaxElems - elems) :
         IF pos + ListHdrLen > limit THEN Raise ELSE StepListBegin(n)
    /\ UNCHANGED v1 /\ V1Rest

V1ReadListEnd ==
    /\ engine = "v1" /\ AtListEnd
    /\ StepListEnd
    /\ UNCHANGED v1 /\ V1Rest

V1ReadFieldEnd ==
    /\ engine = "v1" /\ AtFieldEnd
    /\ StepFieldEnd
    /\ v1' = V1readFieldEnd(v1, pos)
    /\ V1Rest

V1ReadStructEnd ==
    /\ engine = "v1" /\ AtStructEnd
    /\ StepStructEnd
    /\ v1' = V1readStructEnd(v1)
    /\ V1Rest

\* a leading marker whose failure is not reported as an error segment
V1LeadingMarkerUntyped(header_ok) ==
    [range |-> <<0, 4>>, type |-> "magic_number",
     value |-> IF header_ok THEN "PAR1" ELSE "hex"]

\* the segment of the leading marker: the magic number, or an error
\* segment whose value is the hex text of the four bytes read
V1LeadingMarker(header_ok) ==
    IF header_ok
    THEN [range |-> <<0, 4>>, type |-> "magic_number", value |-> "PAR1"]
    ELSE [range |-> <<0, 4>>, type |-> "error", value |-> "hex"]

V1TrailingMarker(file_size) ==
    [range |-> <<file_size - 4, file_size>>, type |-> "magic_number", value |-> "PAR1"]

V1FooterLength(file_size, footer_length) ==
    [range |-> <<file_size - 8, file_size - 4>>, type |-> "footer_length",
     value |-> footer_length]

\* a trailing error placed on the footer length instead of the marker
V1TrailingErrorAtLength(file_size) ==
    [range |-> <<file_size - 8, file_size - 4>>, type |-> "error", value |-> "hex"]

V1TrailingError(file_size) ==
    [range |-> <<file_size - 4, file_size>>, type |-> "error", value |-> "hex"]

\* the segment of the footer when the decode and the offset processing
\* went through
V1Blob(metadata_offset, footer_length, parsed_metadata_fields) ==
    [range |-> <<metadata_offset, metadata_offset + footer_length>>,
     type |-> "thrift_metadata_blob", size |-> footer_length,
     fields |-> parsed_metadata_fields]

\* the segment of the footer when they raised
V1BlobOnError(metadata_offset, footer_length, raw_field_details) ==
    [range |-> <<metadata_offset, metadata_offset + footer_length>>,
     type |-> "thrift_metadata_blob", size |-> footer_length,
     error |-> "Thrift deserialization or offset processing failed",
     raw_field_details_on_error |-> raw_field_details]

V1InsertByStart(sorted, x) ==
    LET k == Cardinality({i \in 1..Len(sorted) : sorted[i].range[1] <= x.range[1]}) IN
    SubSeq(sorted, 1, k) \o <<x>> \o SubSeq(sorted, k + 1, Len(sorted))

\* segments.sort(key=lambda s: s["range"][0]), a stable sort
RECURSIVE V1SortByStart(_)
V1SortByStart(segments) ==
    IF segments = <<>> THEN <<>>
    ELSE V1InsertByStart(V1SortByStart(Pop(segments)), segments[Len(segments)])

\* the data block is inserted after the first segment when that segment is
\* the magic number and the footer starts after it
V1WithDataBlock(segments, metadata_offset) ==
    IF segments[1].value = "PAR1" /\ metadata_offset > segments[1].range[2]
    THEN <<segments[1],
           [range |-> <<segments[1].range[2], metadata_offset>>,
            type |-> "data_block_unparsed",
            size |-> metadata_offset - segments[1].range[2]]>>
         \o Tail(segments)
    ELSE segments

\* the segments analyze_parquet_file returns for a file whose trailing
\* marker is PAR1 and whose footer segment is blob
analyze_parquet_file(header_ok, file_size, footer_length, blob) ==
    V1SortByStart(
        V1WithDataBlock(<<V1LeadingMarker(header_ok), V1TrailingMarker(file_size),
                          V1FooterLength(file_size, footer_length), blob>>,
                        file_size - 8 - footer_length))

\* where the footer may start: at the start of the file, or after the
\* leading marker and some data
V1MetadataOffsets == {0, 6}

\* the file that was analysed: what its first and last four bytes were,
\* its size and the footer length it declares
V1File(header_ok, footer_magic_ok, file_size, footer_length) ==
    [header_ok |-> header_ok, footer_magic_ok |-> footer_magic_ok,
     file_size |-> file_size, footer_length |-> footer_length]

\* sizes of the files whose footer is not decoded
V1FileSizes == {8, MaxFileSize}

\* the error segment of the leading marker of a file shorter than four
\* bytes: f.read(4) returns what there is
V1TruncatedMarker(file_size) ==
    [range |-> <<0, file_size>>, type |-> "error", value |-> "hex"]

\* an outer handler that returns the error text alone, as the handler of
\* FileNotFoundError does
V1ExceptedBare(segments) == [k |-> "error"]

\* the outer except Exception: the error text and the segments collected
V1Excepted(segments) == [k |-> "error", segments |-> segments]

\* analyze_parquet_file up to the decode of the footer: the two markers
\* and the footer length. What the file holds before the footer has no
\* part in the decode and is drawn when the segments are put together.
V1Open ==
    /\ engine = "v1" /\ pc = "open"
    /\ \/ \* the last four bytes are not PAR1: no footer length, no decode
          /\ \E header_ok \in BOOLEAN, file_size \in V1FileSizes,
                footer_length \in {0, MaxFileSize + 1} :
               /\ out' = [k |-> "segments",
                          segments |-> V1SortByStart(<<V1LeadingMarker(header_ok),
                                                       V1TrailingError(file_size)>>)]
               /\ nav' = V1File(header_ok, FALSE, file_size, footer_length)
          /\ pc' = "nofooter"
          /\ UNCHANGED limit
       \/ \* the footer would start before the file: f.seek(metadata_offset)
          \* raises OSError, the outer handler returns what was collected
          /\ \E header_ok \in BOOLEAN, file_size \in V1FileSizes,
                footer_length \in 1..(MaxFileSize + 1) :
               /\ file_size - 8 - footer_length < 0
               /\ out' = V1Excepted(<<V1LeadingMarker(header_ok),
                                       V1TrailingMarker(file_size),
                                       V1FooterLength(file_size, footer_length)>>)
               /\ nav' = V1File(header_ok, TRUE, file_size, footer_length)
          /\ pc' = "excepted"
          /\ UNCHANGED limit
       \/ \* the file is shorter than 8 bytes: f.seek(-8, 2) raises OSError
          \* after the segment of the leading marker was appended
          /\ \E header_ok \in BOOLEAN, file_size \in 0..7 :
               /\ header_ok => file_size >= 4
               /\ out' = V1Excepted(<<IF file_size < 4 THEN V1TruncatedMarker(file_size)
                                      ELSE V1LeadingMarker(header_ok)>>)
               /\ nav' = V1File(header_ok, FALSE, file_size, 0)
          /\ pc' = "excepted"
          /\ UNCHANGED limit
       \/ \* the footer_length bytes before the footer length are decoded
          /\ \E footer_length \in StreamLens : limit' = footer_length
          /\ pc' = "decode"
          /\ UNCHANGED <<out, nav>>
    /\ UNCHANGED <<engine, pos, stk, hdrs, elems, root, v1, v2, v3>>

\* analyze_parquet_file, after file_metadata_obj.read(protocol) returned
\* (a file that begins with PAR1 holds its footer after it)
V1Return ==
    /\ engine = "v1" /\ pc = "done"
    /\ \E metadata_offset \in V1MetadataOffsets, header_ok \in BOOLEAN,
          show_undefined_optional \in BOOLEAN :
         /\ header_ok => metadata_offset >= 4
         /\ out' = [k |-> "segments",
                    segments |-> analyze_parquet_file(header_ok,
                        metadata_offset + limit + 8, limit,
                        V1Blob(metadata_offset, limit,
                            thrift_to_dict_with_offsets(root, v1.field_details,
                                metadata_offset, 1, show_undefined_optional).fields))]
         /\ nav' = V1File(header_ok, TRUE, metadata_offset + limit + 8, limit)
                   @@ [show_undefined_optional |-> show_undefined_optional]
    /\ pc' = "returned"
    /\ Fixed /\ UNCHANGED <<pos, stk, hdrs, elems, root, v1, v2, v3>>

\* analyze_parquet_file, when the decode raised: raw_field_details is
\* still the empty dict it was set to before the try, protocol.field_details
\* is assigned to it only after read() returned
V1Fail ==
    /\ engine = "v1" /\ pc = "error"
    /\ \E metadata_offset \in V1MetadataOffsets, header_ok \in BOOLEAN :
         /\ header_ok => metadata_offset >= 4
         /\ out' = [k |-> "segments",
                    segments |-> analyze_parquet_file(header_ok,
                        metadata_offset + limit + 8, limit,
                        V1BlobOnError(metadata_offset, limit, <<>>))]
         /\ nav' = V1File(header_ok, TRUE, metadata_offset + limit + 8, limit)
    /\ pc' = "failed"
    /\ Fixed /\ UNCHANGED <<pos, stk, hdrs, elems, root, v1, v2, v3>>

InitV1 ==
    /\ pc = "open" /\ engine = "v1" /\ pos = 0 /\ limit = 0
    /\ stk = <<Frame("struct", "FileMetaData", "begin")>>
    /\ hdrs = 0 /\ elems = 0 /\ root = None
    /\ v1 = V1Init("FileMetaData")
    /\ v2 = None /\ v3 = None /\ out = None /\ nav = None

NextV1 ==
    \/ V1Open
    \/ V1ReadStructBegin
    \/ V1ReadFieldBegin
    \/ V1ReadPrim
    \/ V1ReadListBegin
    \/ V1ReadListEnd
    \/ V1ReadFieldEnd
    \/ V1ReadStructEnd
    \/ V1Return
    \/ V1Fail

SpecV1 == InitV1 /\ [][NextV1]_vars

-----------------------------------------------------------------------------
(* Properties of v1                                                        *)

\* the segment of the footer in what analyze_parquet_file returned
V1Footer == out.segments[CHOOSE i \in 1..Len(out.segments) :
                             out.segments[i].type = "thrift_metadata_blob"]

HasHeader(field_item) == field_item.field_header_range # <<>>

\* C5: the top-level fields thrift_to_dict_with_offsets returns are in
\* ascending order of the start of their header range, the fields without a
\* header range come after all fields that have one, ties and fields
\* without a range keep the declaration order, and the fields that have a
\* range are exactly the fields the footer held, each shown at the place
\* where its header was read, so the output order is the byte appearance
\* order.
C5_TopLevelOrder ==
    (engine = "v1" /\ pc = "returned") =>
        /\ \A i, j \in 1..Len(V1Footer.fields) : i < j =>
             LET a == V1Footer.fields[i]
                 b == V1Footer.fields[j]
             IN /\ HasHeader(b) => HasHeader(a)
                /\ (HasHeader(a) /\ HasHeader(b)) =>
                     \/ a.field_header_range[1] < b.field_header_range[1]
                     \/ /\ a.field_header_range[1] = b.field_header_range[1]
                        /\ a.field_id < b.field_id
                /\ (~HasHeader(a) /\ ~HasHeader(b)) => a.field_id < b.field_id
        /\ \A i \in 1..Len(V1Footer.fields) :
             LET a == V1Footer.fields[i] IN
             /\ HasHeader(a) <=> root.f[a.field_id] # None
             /\ HasHeader(a) => a.field_header_range = Shift(root.f[a.field_id].hr, V1Footer.range[1])

\* a returned footer whose fields were written out of declaration order
\* and that lacks a required field
C5_Witness ==
    /\ engine = "v1" /\ pc = "returned"
    /\ \E i, j \in 1..Len(V1Footer.fields) :
         /\ i < j /\ HasHeader(V1Footer.fields[i]) /\ HasHeader(V1Footer.fields[j])
         /\ V1Footer.fields[i].field_id > V1Footer.fields[j].field_id
    /\ \E i \in 1..Len(V1Footer.fields) : ~HasHeader(V1Footer.fields[i])

RECURSIVE V1ElementsOwn(_, _, _)
V1ElementOwn(fields, obj, base) ==
    \A i \in 1..Len(fields) :
        LET a == fields[i]
            slot == obj.f[a.field_id]
        IN /\ HasHeader(a) => (slot # None /\ a.field_header_range = Shift(slot.hr, base))
           /\ a.value_range # <<>> =>
                (slot # None /\ a.value_range = Shift(<<slot.hr[2], slot.end>>, base))

V1ElementsOwn(fields, obj, base) ==
    \A i \in 1..Len(fields) :
        LET a == fields[i]
            slot == obj.f[a.field_id]
        IN CASE a.value.k = "dict" -> V1ElementsOwn(a.value.fields, slot.v, base)
             [] a.value.k = "list" ->
                  /\ \A e \in 1..Len(a.value.items) :
                       /\ V1ElementOwn(a.value.items[e].fields, slot.v.items[e], base)
                       /\ V1ElementsOwn(a.value.items[e].fields, slot.v.items[e], base)
                  /\ \A e1, e2 \in 1..Len(a.value.items) : e1 < e2 =>
                       \A x \in 1..Len(a.value.items[e1].fields),
                          y \in 1..Len(a.value.items[e2].fields) :
                           LET fx == a.value.items[e1].fields[x]
                               fy == a.value.items[e2].fields[y]
                           IN (fx.field_id = fy.field_id /\ HasHeader(fx) /\ HasHeader(fy))
                                => fx.field_header_range # fy.field_header_range
             [] OTHER -> TRUE

\* C10: in the output of thrift_to_dict_with_offsets the header and value
\* ranges shown for a field of a list element are the ranges at which that
\* element's own field was read, and fields with the same name and id in
\* two elements of one list never carry the same range.
C10_ElementRanges ==
    (engine = "v1" /\ pc = "returned") => V1ElementsOwn(V1Footer.fields, root, V1Footer.range[1])

-----------------------------------------------------------------------------
(* v2 engine: parquet_lens_v2.OffsetRecordingProtocol.                     *)
(* field_details is a dict whose values are shared objects: ents holds the *)
(* entry objects in the order they were made, keys holds the dict's keys   *)
(* in insertion order, each with the index of the entry it refers to.      *)
(* "" and NoId stand for None, <<>> for a range that is not recorded.      *)

make_field_key(nesting_level, field_name, field_id) ==
    ToString(nesting_level) \o "_" \o field_name \o "_" \o ToString(field_id)

\* "_".join(parts)
RECURSIVE Join(_)
Join(parts) ==
    IF parts = <<>> THEN ""
    ELSE IF Len(parts) = 1 THEN parts[1]
    ELSE parts[1] \o "_" \o Join(Tail(parts))

\* f"{level}_{path_key}_{field_id}" with path_key the joined path and name
full_path_key(level, path, field_name, field_id) ==
    ToString(level) \o "_" \o Join(Append(path, field_name)) \o "_" \o ToString(field_id)

V2Init(struct_class) ==
    [keys |-> <<>>, ents |-> <<>>,
     current_spec |-> struct_class, current_field_name |-> "", current_field_id |-> NoId,
     parent_spec_stack |-> <<>>, struct_nesting_level |-> 0,
     list_element_struct_spec |-> "", field_context_stack |-> <<>>,
     current_field_path |-> <<>>]

\* field_details.get(key): the index of the entry, 0 for None
V2Get(keys, key) ==
    IF \E i \in 1..Len(keys) : keys[i].key = key
    THEN keys[CHOOSE i \in 1..Len(keys) : keys[i].key = key].ref
    ELSE 0

\* field_details[key] = entry: a key the dict holds keeps its place
V2Set(keys, key, ref) ==
    IF \E i \in 1..Len(keys) : keys[i].key = key
    THEN [i \in 1..Len(keys) |-> IF keys[i].key = key THEN [key |-> key, ref |-> ref]
                                  ELSE keys[i]]
    ELSE Append(keys, [key |-> key, ref |-> ref])

\* field_details.get(field_key) or field_details.get(full_path_key)
V2Entry(e, level, name, fid) ==
    LET r == V2Get(e.keys, make_field_key(level, name, fid)) IN
    IF r # 0 THEN r
    ELSE V2Get(e.keys, full_path_key(level, e.current_field_path, name, fid))

V2InField(e) == e.current_field_name # "" /\ e.current_field_id # NoId

_find_field_name_from_spec(field_id, spec) ==
    IF HasField(spec, field_id) THEN FieldOf(spec, field_id).name
    ELSE "field_" \o ToString(field_id)

\* the entry of field_id in spec; StopHdr stands for None
_get_field_spec_from_id(field_id, spec) ==
    IF HasField(spec, field_id) THEN FieldOf(spec, field_id) ELSE StopHdr

V2readStructBegin(e, p) ==
    LET r == V2Get(e.keys, make_field_key(e.struct_nesting_level, e.current_field_name,
                                          e.current_field_id))
        e1 == IF V2InField(e)
              THEN [(IF r # 0 THEN [e EXCEPT !.ents[r].value_start_offset = p] ELSE e)
                       EXCEPT !.current_field_path = Append(@, e.current_field_name)]
              ELSE e
        e2 == IF e.current_field_name # "" \/ e.current_field_id # NoId
              THEN [e1 EXCEPT !.field_context_stack =
                        Append(@, <<e.current_field_name, e.current_field_id,
                                    e.struct_nesting_level>>)]
              ELSE e1
    IN [e2 EXCEPT !.struct_nesting_level = @ + 1]

V2readStructEnd(e) ==
    LET e1 == [e EXCEPT !.struct_nesting_level = @ - 1]
        e2 == IF e1.parent_spec_stack # <<>>
              THEN [e1 EXCEPT !.current_spec = e.parent_spec_stack[Len(e.parent_spec_stack)],
                              !.parent_spec_stack = Pop(@)]
              ELSE e1
    IN IF e2.field_context_stack # <<>>
       THEN LET c == e2.field_context_stack[Len(e2.field_context_stack)] IN
            [e2 EXCEPT !.current_field_name = c[1], !.current_field_id = c[2],
                       !.field_context_stack = Pop(@),
                       !.current_field_path = IF @ # <<>> THEN Pop(@) ELSE @]
       ELSE [e2 EXCEPT !.current_field_name = "", !.current_field_id = NoId,
                       !.current_field_path = <<>>]

\* p is the cursor after the header; nothing is recorded for STOP
V2readFieldBegin(e, h, p) ==
    IF h.type = "STOP" THEN e
    ELSE
    LET current_position == p - 1
        field_name == _find_field_name_from_spec(h.id, e.current_spec)
        field_key == make_field_key(e.struct_nesting_level, field_name, h.id)
        path_key == full_path_key(e.struct_nesting_level, e.current_field_path,
                                  field_name, h.id)
        field_detail_entry ==
            [field_header_start_offset |-> current_position, field_name |-> field_name,
             field_id |-> h.id, field_type |-> h.type,
             nesting_level |-> e.struct_nesting_level,
             field_path |-> Append(e.current_field_path, field_name),
             path_key |-> path_key,
             value_start_offset |-> NoId, field_end_offset |-> NoId,
             field_header_range_in_blob |-> <<>>, value_range_in_blob |-> <<>>,
             list_details |-> None]
        ref == Len(e.ents) + 1
        e1 == [e EXCEPT !.ents = Append(@, field_detail_entry),
                        !.keys = V2Set(V2Set(@, field_key, ref), path_key, ref),
                        !.current_field_name = field_name, !.current_field_id = h.id]
        field_spec_tuple == _get_field_spec_from_id(h.id, e.current_spec)
    IN CASE h.type = "STRUCT" ->
              IF e.list_element_struct_spec # "" /\ Fields(e.list_element_struct_spec) # {}
              THEN [e1 EXCEPT !.parent_spec_stack = Append(@, e.current_spec),
                              !.current_spec = e.list_element_struct_spec]
              ELSE IF field_spec_tuple.type = "STRUCT"
              THEN [e1 EXCEPT !.parent_spec_stack = Append(@, e.current_spec),
                              !.current_spec = field_spec_tuple.cls]
              ELSE e1
         [] h.type = "LIST" ->
              IF field_spec_tuple.type = "LIST" /\ field_spec_tuple.cls # ""
              THEN [e1 EXCEPT !.list_element_struct_spec = field_spec_tuple.cls]
              ELSE e1
         [] OTHER -> e1

V2readFieldEnd(e, p) ==
    LET r == V2Entry(e, e.struct_nesting_level, e.current_field_name, e.current_field_id)
        e1 == IF V2InField(e) /\ r # 0
              THEN LET start_offset == e.ents[r].field_header_start_offset
                       value_start == IF e.ents[r].value_start_offset # NoId
                                      THEN e.ents[r].value_start_offset
                                      ELSE start_offset + 1
                   IN [e EXCEPT !.ents[r].field_end_offset = p,
                                !.ents[r].field_header_range_in_blob =
                                     <<start_offset, value_start>>,
                                !.ents[r].value_range_in_blob = <<value_start, p>>]
              ELSE e
    IN [e1 EXCEPT !.current_field_name = "", !.current_field_id = NoId]

\* p is the cursor after the list header
V2readListBegin(e, elem_type, size, p) ==
    LET r == V2Entry(e, e.struct_nesting_level, e.current_field_name, e.current_field_id) IN
    IF V2InField(e) /\ r # 0
    THEN [e EXCEPT !.ents[r].list_details =
                       IF @ = None
                       THEN [start |-> p, elem_type |-> elem_type, size |-> size,
                             elements |-> <<>>, end |-> NoId]
                       ELSE @,
                   !.field_context_stack =
                       Append(@, <<e.current_field_name, e.current_field_id,
                                   e.struct_nesting_level>>)]
    ELSE e

V2readListEnd(e, p) ==
    LET e1 == [e EXCEPT !.list_element_struct_spec = ""] IN
    IF e1.field_context_stack = <<>> THEN e1
    ELSE LET c == e1.field_context_stack[Len(e1.field_context_stack)]
             e2 == [e1 EXCEPT !.field_context_stack = Pop(@)]
             r == V2Entry(e2, c[3], c[1], c[2])
         IN IF r # 0 /\ e2.ents[r].list_details # None
            THEN [e2 EXCEPT !.ents[r].list_details.end = p,
                            !.ents[r].value_range_in_blob =
                                IF @ # <<>> THEN <<@[1], IF @[2] > p THEN @[2] ELSE p>>
                                ELSE @]
            ELSE e2

-----------------------------------------------------------------------------
(* v2 output: thrift_to_segments and analyze_parquet_file_v2               *)

StartsWith(s, t) == Len(s) >= Len(t) /\ SubSeq(s, 1, Len(t)) = t

EndsWith(s, t) == Len(s) >= Len(t) /\ SubSeq(s, Len(s) - Len(t) + 1, Len(s)) = t

\* the first key of the dict, in insertion order, that starts with prefix
\* and ends with suffix; 0 when there is none
FirstCandidate(keys, prefix, suffix) ==
    LET cand == {i \in 1..Len(keys) :
                    StartsWith(keys[i].key, prefix) /\ EndsWith(keys[i].key, suffix)}
    IN IF cand = {} THEN 0
       ELSE keys[CHOOSE i \in cand : \A j \in cand : i <= j].ref

\* ['field', part] for every part of the path
RECURSIVE path_parts(_)
path_parts(field_path) ==
    IF field_path = <<>> THEN <<>>
    ELSE <<"field", Head(field_path)>> \o path_parts(Tail(field_path))

\* a lookup that found nothing (0) gives way to the next one
OrElse(found, next) == IF found # 0 THEN found ELSE next

\* the index of the entry found, 0 for None
find_field_detail(field_details_map, field_name, field_id, nesting_level, field_path) ==
    LET keys == field_details_map.keys
        level == ToString(nesting_level) \o "_"
        generic == "field_" \o ToString(field_id)
        hierarchical_key ==
            level \o Join(path_parts(field_path) \o <<"field", field_name, ToString(field_id)>>)
        by_path == IF field_path # <<>> THEN V2Get(keys, hierarchical_key) ELSE 0
        by_key == V2Get(keys, make_field_key(nesting_level, field_name, field_id))
        by_alt == IF field_name # generic
                  THEN V2Get(keys, make_field_key(nesting_level, generic, field_id))
                  ELSE 0
        by_suffix == FirstCandidate(keys, level, field_name \o "_" \o ToString(field_id))
        by_id == FirstCandidate(keys, level, "_" \o ToString(field_id))
    IN OrElse(by_path, OrElse(by_key, OrElse(by_alt, OrElse(by_suffix, by_id))))

create_segment_v2(range_start, range_end, segment_type, value, children, metadata) ==
    [range |-> <<range_start, range_end>>, type |-> segment_type, value |-> value,
     children |-> children, metadata |-> metadata]

\* the fragment holds no enum field; the one binary field is rendered as
\* its bytes and its length
IsBinary(struct_name, field_name) ==
    struct_name = "AesGcmCtrV1" /\ field_name = "aad_prefix"

process_primitive_value(value, field_name, struct_name) ==
    IF value = None THEN None
    ELSE IF value.k # "prim" THEN value
    ELSE IF get_enum_class_for_field(field_name, struct_name) # ""
    THEN [enum_value |-> value.v,
          enum_name |-> NamesGet(get_enum_class_for_field(field_name, struct_name), value.v,
                                 Name("UNKNOWN(" \o ToString(value.v) \o ")"))]
    ELSE IF IsBinary(struct_name, field_name)
    THEN [bytes |-> value.v, length |-> PrimLen("STRING") - 1]
    ELSE value.v

get_primitive_type(value, f) ==
    IF value = None \/ value.k # "prim" THEN "unknown"
    ELSE CASE f.type \in {"I32", "I64"} -> "integer"
           [] f.type = "BOOL" -> "boolean"
           [] f.type = "STRING" -> IF f.name = "aad_prefix" THEN "binary" ELSE "string"
           [] OTHER -> "unknown"

get_thrift_type_name_v2(f) ==
    IF f.type = "LIST"
    THEN "list<" \o (IF f.cls # "" THEN "struct" ELSE "unknown") \o ">"
    ELSE type_map(f.type)

\* an equal division whose item ends are taken one item too early
EqualDivisionEarly(list_start, list_end, items_count) ==
    LET total_size == list_end - list_start IN
    [i \in 1..items_count |->
        <<list_start + (((i - 1) * total_size) \div items_count),
          list_start + (((i - 2) * total_size) \div items_count)>>]

\* the fallback of thrift_to_segments: the list space divided equally
EqualDivision(list_start, list_end, items_count) ==
    LET total_size == list_end - list_start IN
    [i \in 1..items_count |->
        LET start_pos == list_start + (((i - 1) * total_size) \div items_count)
            end_pos == list_start + ((i * total_size) \div items_count)
        IN <<start_pos, IF end_pos > list_end THEN list_end ELSE end_pos>>]

\* getattr(thrift_obj, field_name, None)
FieldValue(thrift_obj, field_id) ==
    IF thrift_obj.f[field_id] = None THEN None ELSE thrift_obj.f[field_id].v

\* the absolute ranges thrift_to_segments works with for a field whose
\* detail is entry r of the map (0: no detail, the default ranges)
V2FieldRanges(field_details_map, r, base_offset_in_file) ==
    IF r = 0
    THEN [field_start |-> base_offset_in_file, field_end |-> base_offset_in_file + 1,
          value_start |-> base_offset_in_file, value_end |-> base_offset_in_file + 1,
          list_start |-> base_offset_in_file, list_end |-> base_offset_in_file + 1,
          elements |-> <<>>]
    ELSE LET field_detail == field_details_map.ents[r]
             header_range == IF field_detail.field_header_range_in_blob # <<>>
                             THEN field_detail.field_header_range_in_blob ELSE <<0, 0>>
             value_range == IF field_detail.value_range_in_blob # <<>>
                            THEN field_detail.value_range_in_blob ELSE <<0, 0>>
             list_details == field_detail.list_details
         IN [field_start |-> header_range[1] + base_offset_in_file,
             field_end |-> value_range[2] + base_offset_in_file,
             value_start |-> value_range[1] + base_offset_in_file,
             value_end |-> value_range[2] + base_offset_in_file,
             list_start |-> IF list_details # None
                            THEN list_details.start + base_offset_in_file
                            ELSE value_range[1] + base_offset_in_file,
             list_end |-> IF list_details # None
                          THEN (IF list_details.end # NoId THEN list_details.end ELSE 0)
                               + base_offset_in_file
                          ELSE value_range[2] + base_offset_in_file,
             elements |-> IF list_details # None THEN list_details.elements ELSE <<>>]

\* the ranges of the items of a list field: the recorded ones, else the
\* equal division of the list space, else the value range for every item
V2ItemRanges(rg, items_count) ==
    LET item_ranges == IF rg.elements # <<>> THEN rg.elements
                       ELSE IF rg.list_start < rg.list_end
                       THEN EqualDivision(rg.list_start, rg.list_end, items_count)
                       ELSE <<>>
    IN IF item_ranges = <<>> \/ Len(item_ranges) # items_count
       THEN [i \in 1..items_count |-> <<rg.value_start, rg.value_end>>]
       ELSE item_ranges

RECURSIVE thrift_to_segments(_, _, _, _, _, _)
\* the thrift_struct segments of the items of a list of structs
V2ListChildren(items, item_ranges, field_details_map, base_offset_in_file, nesting_level, show_undefined_optional) ==
    [i \in 1..Len(items) |->
        create_segment_v2(item_ranges[i][1], item_ranges[i][2], "thrift_struct",
            [struct_type |-> items[i].cls, index |-> i - 1],
            thrift_to_segments(items[i], field_details_map, base_offset_in_file,
                nesting_level + 1, show_undefined_optional, <<>>),
            None)]

\* the segment of field f of thrift_obj, whose ranges are rg; the spec
\* entries of parquet.ttypes have five members, so required is False
V2Emit(thrift_obj, f, field_value, field_details_map, base_offset_in_file, nesting_level, show_undefined_optional, field_path, rg) ==
    IF f.type = "STRUCT" /\ field_value # None
    THEN create_segment_v2(rg.field_start, rg.field_end, "thrift_field",
             [field_name |-> f.name, field_id |-> f.id, struct_type |-> field_value.cls],
             thrift_to_segments(field_value, field_details_map, base_offset_in_file,
                 nesting_level + 1, show_undefined_optional,
                 Append(field_path, "field_" \o ToString(f.id))),
             [thrift_type |-> get_thrift_type_name_v2(f), required |-> FALSE])
    ELSE IF f.type = "LIST" /\ field_value # None /\ field_value.items # <<>>
    THEN create_segment_v2(rg.field_start, rg.field_end, "thrift_field",
             [field_name |-> f.name, field_id |-> f.id,
              list_length |-> Len(field_value.items)],
             V2ListChildren(field_value.items, V2ItemRanges(rg, Len(field_value.items)),
                 field_details_map, base_offset_in_file, nesting_level,
                 show_undefined_optional),
             [thrift_type |-> get_thrift_type_name_v2(f), required |-> FALSE])
    ELSE create_segment_v2(rg.field_start, rg.field_end, "thrift_field",
             [field_name |-> f.name, field_id |-> f.id,
              data |-> process_primitive_value(field_value, f.name, thrift_obj.cls)],
             <<>>,
             [thrift_type |-> get_thrift_type_name_v2(f), required |-> FALSE,
              primitive_type |-> get_primitive_type(field_value, f)])

\* the segment of one field of thrift_obj, <<>> when the field is skipped
\* (an optional field without a value, unless show_undefined_optional)
V2FieldSegment(thrift_obj, field_id, field_details_map, base_offset_in_file, nesting_level, show_undefined_optional, field_path) ==
    IF ~show_undefined_optional /\ FieldValue(thrift_obj, field_id) = None THEN <<>>
    ELSE << V2Emit(thrift_obj, FieldOf(thrift_obj.cls, field_id),
                   FieldValue(thrift_obj, field_id), field_details_map,
                   base_offset_in_file, nesting_level, show_undefined_optional, field_path,
                   V2FieldRanges(field_details_map,
                       find_field_detail(field_details_map,
                           FieldOf(thrift_obj.cls, field_id).name, field_id,
                           nesting_level, field_path),
                       base_offset_in_file)) >>

RECURSIVE V2AllSegments(_, _, _, _, _, _, _)
V2AllSegments(thrift_obj, ids, field_details_map, base_offset_in_file, nesting_level, show_undefined_optional, field_path) ==
    IF ids = <<>> THEN <<>>
    ELSE V2FieldSegment(thrift_obj, Head(ids), field_details_map, base_offset_in_file,
                        nesting_level, show_undefined_optional, field_path)
         \o V2AllSegments(thrift_obj, Tail(ids), field_details_map, base_offset_in_file,
                          nesting_level, show_undefined_optional, field_path)

thrift_to_segments(thrift_obj, field_details_map, base_offset_in_file, nesting_level, show_undefined_optional, field_path) ==
    IF Fields(thrift_obj.cls) = {} THEN <<>>
    ELSE V2AllSegments(thrift_obj, Ascending(FieldIds(thrift_obj.cls)), field_details_map,
                       base_offset_in_file, nesting_level, show_undefined_optional,
                       field_path)

\* the column chunks of one row group, walked in order: the bounds of the
\* row group so far and its column_chunk segments
RECURSIVE V2WalkColumns(_, _, _, _)
V2WalkColumns(columns, col_idx, rg_idx, acc) ==
    IF col_idx >= Len(columns) THEN acc
    ELSE LET column_chunk == columns[col_idx + 1]
             file_offset == FieldValue(column_chunk, 2)
             meta_data == FieldValue(column_chunk, 3)
             col_start == file_offset.v
             col_size == IF meta_data # None THEN FieldValue(meta_data, 7).v ELSE 0
             col_end == col_start + col_size
             col_segment == create_segment_v2(col_start, col_end, "column_chunk",
                                [row_group |-> rg_idx, column |-> col_idx, size |-> col_size],
                                <<>>, None)
         IN V2WalkColumns(columns, col_idx + 1, rg_idx,
                IF file_offset = None THEN acc
                ELSE [rg_start |-> IF col_idx = 0 \/ col_start < acc.rg_start
                                   THEN col_start ELSE acc.rg_start,
                      rg_end |-> IF col_idx = 0 \/ col_end > acc.rg_end
                                 THEN col_end ELSE acc.rg_end,
                      rg_children |-> Append(acc.rg_children, col_segment)])

RECURSIVE V2RowGroups(_, _, _)
V2RowGroups(row_groups, rg_idx, footer_start) ==
    IF rg_idx >= Len(row_groups) THEN <<>>
    ELSE LET row_group == row_groups[rg_idx + 1]
             columns == FieldValue(row_group, 1).items
             w == V2WalkColumns(columns, 0, rg_idx,
                      [rg_start |-> footer_start, rg_end |-> footer_start,
                       rg_children |-> <<>>])
         IN (IF w.rg_children # <<>>
             THEN << create_segment_v2(w.rg_start, w.rg_end, "row_group",
                         [index |-> rg_idx, num_columns |-> Len(columns)],
                         w.rg_children, None) >>
             ELSE <<>>)
            \o V2RowGroups(row_groups, rg_idx + 1, footer_start)

\* the row-group loop raises TypeError on a row group without columns
\* (enumerate(None)) and on a column chunk that has a file_offset and a
\* meta_data without total_compressed_size (int + None); the required
\* fields the fragment leaves out are taken as present
V2LoopRaises(row_groups) ==
    \E i \in 1..Len(row_groups) :
        \/ FieldValue(row_groups[i], 1) = None
        \/ \E j \in 1..Len(FieldValue(row_groups[i], 1).items) :
             LET column_chunk == FieldValue(row_groups[i], 1).items[j] IN
             /\ FieldValue(column_chunk, 2) # None
             /\ FieldValue(column_chunk, 3) # None
             /\ FieldValue(FieldValue(column_chunk, 3), 7) = None

InsertByStart(sorted, x) ==
    LET k == Cardinality({i \in 1..Len(sorted) : sorted[i].range[1] <= x.range[1]}) IN
    SubSeq(sorted, 1, k) \o <<x>> \o SubSeq(sorted, k + 1, Len(sorted))

\* segments.sort(key=lambda segment: segment["range"][0]), a stable sort
RECURSIVE SortByStart(_)
SortByStart(segments) ==
    IF segments = <<>> THEN <<>>
    ELSE InsertByStart(SortByStart(Pop(segments)), segments[Len(segments)])

\* what analyze_parquet_file_v2 has collected when the row-group loop
\* begins: the markers, the footer size and the footer (or its error)
V2Markers(footer_start, footer_size, footer_segment) ==
    LET file_size == footer_start + footer_size + 8 IN
    << create_segment_v2(0, 4, "parquet_header", [header |-> "PAR1"], <<>>, None),
       create_segment_v2(file_size - 4, file_size, "parquet_footer_magic",
                         [footer |-> "PAR1"], <<>>, None),
       create_segment_v2(file_size - 8, file_size - 4, "footer_size",
                         [size |-> footer_size], <<>>, None),
       footer_segment >>

\* footer_metadata.row_groups as the row-group loop sees it: None and the
\* empty list end the loop before it starts
V2RowGroupList(value) ==
    IF value = None THEN <<>> ELSE value.items

analyze_parquet_file_v2(footer_metadata_row_groups, footer_start, footer_size, footer_segment) ==
    SortByStart(V2Markers(footer_start, footer_size, footer_segment)
                \o V2RowGroups(V2RowGroupList(footer_metadata_row_groups), 0, footer_start))

\* where a well-formed file can hold its footer: behind the leading marker
\* and whatever pages the file has
FooterStarts == {4, 6}

\* footer_metadata.read(protocol) over the footer_size bytes of the footer,
\* held in a TMemoryBuffer
V2Rest == Fixed /\ UNCHANGED <<v1, v3, out, nav>>

V2ReadStructBegin ==
    /\ engine = "v2" /\ AtStructBegin
    /\ StepStructBegin
    /\ v2' = V2readStructBegin(v2, pos)
    /\ V2Rest

V2ReadFieldBegin ==
    /\ engine = "v2" /\ AtFieldBegin
    /\ \E h \in Headers(Top.cls, {}) :
         LET p == pos + HdrSize(h, Top.last) IN
         IF p > limit
         THEN Raise /\ UNCHANGED v2
         ELSE StepFieldBegin(h, v2.current_spec) /\ v2' = V2readFieldBegin(v2, h, p)
    /\ V2Rest

V2ReadPrim ==
    /\ engine = "v2" /\ AtPrim
    /\ \E val \in ValDom(Top.cls, Top.fid) :
         IF pos + PrimLen(Top.ft) > limit THEN Raise ELSE StepPrim(val)
    /\ UNCHANGED v2 /\ V2Rest

V2ReadListBegin ==
    /\ engine = "v2" /\ AtListBegin
    /\ \E n \in 0..(MaxElems - elems) :
         IF pos + ListHdrLen > limit
         THEN Raise /\ UNCHANGED v2
         ELSE StepListBegin(n) /\ v2' = V2readListBegin(v2, "STRUCT", n, pos + ListHdrLen)
    /\ V2Rest

V2ReadListEnd ==
    /\ engine = "v2" /\ AtListEnd
    /\ StepListEnd
    /\ v2' = V2readListEnd(v2, pos)
    /\ V2Rest

V2ReadFieldEnd ==
    /\ engine = "v2" /\ AtFieldEnd
    /\ StepFieldEnd
    /\ v2' = V2readFieldEnd(v2, pos)
    /\ V2Rest

V2ReadStructEnd ==
    /\ engine = "v2" /\ AtStructEnd
    /\ StepStructEnd
    /\ v2' = V2readStructEnd(v2)
    /\ V2Rest

\* analyze_parquet_file_v2, after footer_metadata.read(protocol) returned
V2Return ==
    /\ engine = "v2" /\ pc = "done"
    /\ \E footer_start \in FooterStarts, show_undefined_optional \in BOOLEAN :
         LET footer_size == limit
             footer_segments ==
                 thrift_to_segments(root, [keys |-> v2.keys, ents |-> v2.ents],
                                    footer_start, 1, show_undefined_optional, <<>>)
             footer_segment ==
                 create_segment_v2(footer_start, footer_start + footer_size,
                                   "parquet_footer", [footer_size |-> footer_size],
                                   footer_segments, None)
         IN IF V2LoopRaises(V2RowGroupList(FieldValue(root, 4)))
            THEN pc' = "raised" /\ UNCHANGED out
            ELSE /\ pc' = "returned"
                 /\ out' = [k |-> "segments", base |-> footer_start,
                            show_undefined_optional |-> show_undefined_optional,
                            segments |-> analyze_parquet_file_v2(FieldValue(root, 4),
                                             footer_start, footer_size, footer_segment)]
    /\ Fixed /\ UNCHANGED <<pos, stk, hdrs, elems, root, v1, v2, v3, nav>>

\* footer_metadata.row_groups when read() raised: the generated reader
\* assigns the empty list before the list header is read and appends each
\* element when its read() has returned
V2PartialRowGroups ==
    IF Len(stk) >= 2 /\ stk[1].phase = "sub" /\ stk[1].fid = 4 /\ stk[2].k = "list"
    THEN ListVal(stk[2])
    ELSE IF stk[1].obj[4] = None THEN None ELSE stk[1].obj[4].v

\* analyze_parquet_file_v2, when the decode raised: the error segment takes
\* the place of the footer and the row-group loop runs on what was decoded
V2Fail ==
    /\ engine = "v2" /\ pc = "error"
    /\ \E footer_start \in FooterStarts :
         LET footer_size == limit
             error_segment ==
                 create_segment_v2(footer_start, footer_start + footer_size,
                                   "parquet_footer_error", [footer_size |-> footer_size],
                                   <<>>, None)
         IN IF V2LoopRaises(V2RowGroupList(V2PartialRowGroups))
            THEN pc' = "raised" /\ UNCHANGED out
            ELSE /\ pc' = "failed"
                 /\ out' = [k |-> "segments", base |-> footer_start,
                            segments |-> analyze_parquet_file_v2(V2PartialRowGroups,
                                             footer_start, footer_size, error_segment)]
    /\ Fixed /\ UNCHANGED <<pos, stk, hdrs, elems, root, v1, v2, v3, nav>>

InitV2 ==
    /\ pc = "decode" /\ engine = "v2" /\ pos = 0
    /\ limit \in StreamLens
    /\ stk = <<Frame("struct", "FileMetaData", "begin")>>
    /\ hdrs = 0 /\ elems = 0 /\ root = None
    /\ v2 = V2Init("FileMetaData")
    /\ v1 = None /\ v3 = None /\ out = None /\ nav = None

NextV2 ==
    \/ V2ReadStructBegin
    \/ V2ReadFieldBegin
    \/ V2ReadPrim
    \/ V2ReadListBegin
    \/ V2ReadListEnd
    \/ V2ReadFieldEnd
    \/ V2ReadStructEnd
    \/ V2Return
    \/ V2Fail

SpecV2 == InitV2 /\ [][NextV2]_vars

-----------------------------------------------------------------------------
(* Properties of v2                                                        *)

\* every segment of a list, at any depth, has range[0] <= range[1]
RECURSIVE V2Ordered(_)
V2Ordered(segments) ==
    \A i \in 1..Len(segments) :
        /\ segments[i].range[1] <= segments[i].range[2]
        /\ V2Ordered(segments[i].children)

\* every child, at any depth, lies within its parent
RECURSIVE V2Within(_)
V2Within(segments) ==
    \A i \in 1..Len(segments) :
        /\ \A j \in 1..Len(segments[i].children) :
             /\ segments[i].range[1] <= segments[i].children[j].range[1]
             /\ segments[i].children[j].range[2] <= segments[i].range[2]
        /\ V2Within(segments[i].children)

RECURSIVE V2Has(_, _)
V2Has(segments, type) ==
    \E i \in 1..Len(segments) :
        segments[i].type = type \/ V2Has(segments[i].children, type)

\* C2: every segment, at any depth, that analyze_parquet_file_v2 returns
\* for a file with valid markers, a footer that decodes and non-negative
\* column sizes has range[0] <= range[1].
C2_RangeOrdered ==
    (engine = "v2" /\ pc = "returned") => V2Ordered(out.segments)

\* a returned analysis that holds a row group with a column chunk and a
\* list field whose items were given ranges
C2_Witness ==
    /\ engine = "v2" /\ pc = "returned"
    /\ V2Has(out.segments, "row_group")
    /\ V2Has(out.segments, "column_chunk")
    /\ V2Has(out.segments, "thrift_struct")

\* C3: in what analyze_parquet_file_v2 returns every child's range lies
\* within its parent's range; so the field segments under a struct element
\* of a list lie within the element's range, also for lists of two or more
\* elements.
C3_ChildWithinParent ==
    (engine = "v2" /\ pc = "returned") => V2Within(out.segments)

\* C9: when the v2 engine reads the header of a field of a struct element
\* of a list-of-struct field, the capture it makes carries the name the
\* list's declared element schema gives the field id, and when the list
\* ends the active schema is the schema of the struct that holds the list.
C9_ElementSchema ==
    [][ engine = "v2" =>
          /\ (AtFieldBegin /\ TopIsElement /\ hdrs' = hdrs + 1) =>
                LET capture == v2'.ents[Len(v2'.ents)] IN
                capture.field_name = FieldOf(Top.cls, capture.field_id).name
          /\ (AtListEnd /\ Len(stk') < Len(stk)) =>
                v2'.current_spec = stk[Len(stk) - 1].cls
      ]_vars

\* C11: whenever the v2 engine records the header range of a capture, the
\* range starts at the cursor position at which the field header began and
\* ends at the position at which the header ended, for one-byte delta
\* headers and for headers that carry an explicit field id.
C11_HeaderRange ==
    [][ (engine = "v2" /\ AtFieldEnd) =>
          \A r \in 1..Len(v2.ents) :
              v2'.ents[r].field_header_range_in_blob # v2.ents[r].field_header_range_in_blob
                  => v2'.ents[r].field_header_range_in_blob = <<Top.fst, Top.fat>>
      ]_vars

\* C12: after a complete footer decode by the v1 engine every capture of
\* field_details that has a header range and a value range satisfies
\* header start <= header end <= value start <= value end, and its
\* field_total_range ends at the value end, also when the same key (level,
\* name, id) was decoded several times.
C12_CaptureOrdered ==
    (engine = "v1" /\ pc \in {"done", "returned"}) =>
        \A key \in DOMAIN v1.field_details :
            LET d == v1.field_details[key] IN
            (d.hdr # <<>> /\ d.val # <<>>) =>
                /\ d.hdr[1] <= d.hdr[2] /\ d.hdr[2] <= d.val[1] /\ d.val[1] <= d.val[2]
                /\ d.total # <<>> /\ d.total[2] = d.val[2]

\* the struct segments under every list segment carry the bytes the read()
\* of their element consumed (obj is the struct the segments were made of)
RECURSIVE V2ElementsExact(_, _, _)
V2ElementsExact(segments, obj, base) ==
    \A i \in 1..Len(segments) :
        LET sg == segments[i] IN
        IF "list_length" \in DOMAIN sg.value
        THEN LET items == obj.f[sg.value.field_id].v.items IN
             \A e \in 1..Len(sg.children) :
                 /\ sg.children[e].range = <<items[e].at + base, items[e].end + base>>
                 /\ V2ElementsExact(sg.children[e].children, items[e], base)
        ELSE IF "struct_type" \in DOMAIN sg.value
        THEN V2ElementsExact(sg.children, obj.f[sg.value.field_id].v, base)
        ELSE TRUE

\* the segment of the footer in what analyze_parquet_file_v2 returned
V2Footer == out.segments[CHOOSE i \in 1..Len(out.segments) :
                             out.segments[i].type = "parquet_footer"]

\* C13: in the output of thrift_to_segments (v2) the range of the segment
\* of list element i is the byte range that was consumed when element i was
\* decoded, not an even division of the list's byte span.
C13_ElementRangeExact ==
    (engine = "v2" /\ pc = "returned") =>
        V2ElementsExact(V2Footer.children, root, out.base)

\* the byte ranges [a, b) and [c, d) have no byte in common
Disjoint(r, q) == r[2] <= q[1] \/ q[2] <= r[1]

\* every list segment among the segments and below them has one struct
\* segment per element, in index order, pairwise disjoint, inside the list
RECURSIVE V2ListsWellFormed(_)
V2ListsWellFormed(segments) ==
    \A i \in 1..Len(segments) :
        LET sg == segments[i] IN
        /\ V2ListsWellFormed(sg.children)
        /\ ("list_length" \in DOMAIN sg.value /\ sg.value.list_length >= 1) =>
              /\ Len(sg.children) = sg.value.list_length
              /\ \A e \in 1..Len(sg.children) :
                    /\ sg.children[e].type = "thrift_struct"
                    /\ sg.children[e].value.index = e - 1
                    /\ sg.range[1] <= sg.children[e].range[1]
                    /\ sg.children[e].range[2] <= sg.range[2]
              /\ \A e, g \in 1..Len(sg.children) :
                    e < g => Disjoint(sg.children[e].range, sg.children[g].range)

\* the list fields of obj with at least one element, each with a segment of
\* that length among the segments made of obj, and the same in every element
RECURSIVE V2ListsEmitted(_, _)
V2ListsEmitted(segments, obj) ==
    \A fid \in DOMAIN obj.f :
        LET v == FieldValue(obj, fid) IN
        /\ (v.k = "list" /\ Len(v.items) >= 1) =>
              /\ Cardinality({i \in 1..Len(segments) :
                                 segments[i].value.field_id = fid}) = 1
              /\ \A i \in 1..Len(segments) :
                    segments[i].value.field_id = fid =>
                        /\ "list_length" \in DOMAIN segments[i].value
                        /\ segments[i].value.list_length = Len(v.items)
                        /\ Len(segments[i].children) = Len(v.items)
                        /\ \A e \in 1..Len(v.items) :
                              V2ListsEmitted(segments[i].children[e].children, v.items[e])
        /\ v.k = "struct" =>
              \A i \in 1..Len(segments) :
                  segments[i].value.field_id = fid =>
                      V2ListsEmitted(segments[i].children, v)

\* C14: for a list field holding n >= 1 struct elements the output of
\* thrift_to_segments (v2) has exactly one list segment with list_length n
\* and exactly n child struct segments in index order, whose ranges are
\* pairwise disjoint and all contained in the range of the list segment.
C14_ListSegments ==
    (engine = "v2" /\ pc = "returned") =>
        /\ V2ListsEmitted(V2Footer.children, root)
        /\ V2ListsWellFormed(V2Footer.children)

\* C15: every field header the v3 engine has read, with an id the active
\* schema defines or not, leaves the decode running on the following
\* fields, and the captures recorded before it stay in the context tree.
C15_UnknownFieldContinues ==
    [][ (engine = "v3" /\ AtFieldBegin /\ pos' > pos) =>
            /\ pc' = "decode"
            /\ v3' # v3 => v3'.parents[Len(v3'.parents)] = v3.cur
      ]_vars

-----------------------------------------------------------------------------
\* The page walk of one column chunk (read_pages of parquet_lens_v3). The
\* file does not change during the walk: nav.file remembers the page header
\* each offset held when it was first decoded, and a second decode at the
\* same offset gives the same header.

MaxValues == 2

\* num_values a data page header may declare
PageNumValues == {0, 1}

\* compressed_page_size values of the walk: those of PageSizes and the one
\* that leads back to the start of the header that holds it
WalkPageSizes == PageSizes \cup {-n : n \in PageHdrLens}

\* a decoded PageHeader: the bytes its decode consumed, which of
\* data_page_header / data_page_header_v2 is set, and its sizes
PageHeaders ==
    [n : PageHdrLens,
     kind : {"data_page_header", "data_page_header_v2", "none"},
     num_values : PageNumValues,
     compressed_page_size : WalkPageSizes]

PageAt(file, offset) ==
    IF file[offset] = None THEN PageHeaders ELSE {file[offset]}

InitPages ==
    /\ engine = "pages" /\ pc = "walk"
    /\ \E file_size \in FileSizes, num_values \in 0..MaxValues,
          data_page_offset \in 0..MaxFileSize :
         /\ data_page_offset \in RegionOffsets(file_size)
         /\ nav = [file_size |-> file_size,
                   file |-> [o \in 0..(MaxFileSize + 2) |-> None],
                   remaining_values |-> num_values,
                   offset |-> data_page_offset,
                   page |-> None,
                   offsets |-> 0]
    /\ pos = 0 /\ limit = 0 /\ stk = <<>> /\ hdrs = 0 /\ elems = 0
    /\ root = None /\ v1 = None /\ v2 = None /\ v3 = None /\ out = None

\* the first half of the loop body: the page header the file holds at
\* w.offset is decoded and its two segments are appended (offsets: the
\* pages appended so far, counted up to MaxRegions)
read_pages(w, page) ==
    [w EXCEPT !.file[w.offset] = page,
              !.page = page,
              !.offsets = IF @ < MaxRegions THEN @ + 1 ELSE @]

\* the second half, for a page that has a data page header: the values
\* left and the offset of the next page
read_pages_advance(w) ==
    [w EXCEPT !.remaining_values = @ - w.page.num_values,
              !.offset = w.offset + w.page.n + w.page.compressed_page_size,
              !.page = None]

\* a pass of the loop begins: the decode of the page header fails at the
\* end of the file
PagesRead ==
    /\ engine = "pages" /\ pc = "walk" /\ nav.remaining_values > 0
    /\ \E page \in PageAt(nav.file, nav.offset) :
         IF nav.offset + page.n > nav.file_size
         THEN pc' = "raised" /\ UNCHANGED nav
         ELSE nav' = read_pages(nav, page) /\ pc' = "page"
    /\ UNCHANGED out /\ NavRest

\* the pass ends: a header without a data page header ends the walk
PagesAdvance ==
    /\ engine = "pages" /\ pc = "page"
    /\ IF nav.page.kind = "none"
       THEN pc' = "returned" /\ UNCHANGED nav
       ELSE pc' = "walk" /\ nav' = read_pages_advance(nav)
    /\ UNCHANGED out /\ NavRest

\* the loop condition fails: return offsets
PagesReturn ==
    /\ engine = "pages" /\ pc = "walk" /\ nav.remaining_values <= 0
    /\ pc' = "returned"
    /\ UNCHANGED <<nav, out>> /\ NavRest

NextPages ==
    \/ PagesRead
    \/ PagesAdvance
    \/ PagesReturn

\* read_pages is sequential code: it keeps taking its next step
SpecPages == InitPages /\ [][NextPages]_vars /\ WF_vars(NextPages)

\* C16: the page walk read_pages (v3) terminates for every column chunk and
\* every sequence of page headers, also for headers that declare
\* num_values = 0 or a compressed_page_size that is not positive: it ends by
\* returning or by raising and never loops indefinitely.
C16_PageWalkTerminates == <>(pc \in {"returned", "raised"})

-----------------------------------------------------------------------------
(* Properties of analyze_parquet_file (v1)                                 *)

\* analyze_parquet_file has returned: with the footer decoded, with the
\* decode failed, without a footer, or through its outer handler
V1Returned == engine = "v1" /\ pc \in {"returned", "failed", "nofooter", "excepted"}

V1HasType(segments, type) == \E i \in 1..Len(segments) : segments[i].type = type

\* C17: when the first four bytes of a file of at least 8 bytes are not
\* PAR1, analyze_parquet_file (v1) returns, its segments hold exactly one
\* error segment with range [0, 4], the trailing marker is still
\* validated, and the footer is still decoded when the trailing marker is
\* PAR1 and the footer lies in the file.
C17_BadLeadingMarker ==
    (V1Returned /\ nav.file_size >= 8 /\ ~nav.header_ok) =>
        /\ Cardinality({i \in 1..Len(out.segments) :
               out.segments[i].type = "error" /\ out.segments[i].range = <<0, 4>>}) = 1
        /\ \E i \in 1..Len(out.segments) :
               /\ out.segments[i].range = <<nav.file_size - 4, nav.file_size>>
               /\ out.segments[i].type =
                      IF nav.footer_magic_ok THEN "magic_number" ELSE "error"
        /\ (nav.footer_magic_ok /\ nav.footer_length <= nav.file_size - 8) =>
               /\ pc \in {"returned", "failed"}
               /\ V1HasType(out.segments, "thrift_metadata_blob")
               /\ pc = "returned" => "fields" \in DOMAIN V1Footer

\* a file without the leading marker whose footer was decoded and holds
\* a schema
C17_Witness ==
    /\ V1Returned /\ ~nav.header_ok /\ pc = "returned"
    /\ V1Footer.fields # <<>> /\ root.f[2] # None


\* C18: when the last four bytes of a file of at least 8 bytes are not
\* PAR1, analyze_parquet_file (v1) returns a segment list that holds an
\* error segment with range [file_size - 4, file_size], holds no
\* footer_length and no thrift_metadata_blob segment, and is sorted by
\* range start.
C18_BadTrailingMarker ==
    (V1Returned /\ nav.file_size >= 8 /\ ~nav.footer_magic_ok) =>
        /\ out.k = "segments"
        /\ \E i \in 1..Len(out.segments) :
               /\ out.segments[i].type = "error"
               /\ out.segments[i].range = <<nav.file_size - 4, nav.file_size>>
        /\ ~V1HasType(out.segments, "footer_length")
        /\ ~V1HasType(out.segments, "thrift_metadata_blob")
        /\ \A i, j \in 1..Len(out.segments) :
               i < j => out.segments[i].range[1] <= out.segments[j].range[1]

\* a file of 8 bytes with neither marker: the two error segments touch
C18_Witness ==
    /\ V1Returned /\ ~nav.footer_magic_ok /\ ~nav.header_ok
    /\ nav.file_size = 8 /\ Len(out.segments) = 2

\* C19: when the declared footer length exceeds file_size - 8, so that the
\* footer would start before the file, analyze_parquet_file (v1) returns
\* and its segments hold an error segment, other than that of the leading
\* marker, for the invalid footer range.
C19_FooterRangeInvalid ==
    (V1Returned /\ nav.file_size >= 8 /\ nav.footer_magic_ok
        /\ nav.footer_length > nav.file_size - 8) =>
        \E i \in 1..Len(out.segments) :
            /\ out.segments[i].type = "error"
            /\ out.segments[i].range # <<0, 4>>

\* C20: when the decode of the footer fails after at least one capture was
\* recorded, the footer segment of analyze_parquet_file (v1) carries every
\* capture recorded before the failure in raw_field_details_on_error.
C20_PartialCaptures ==
    (engine = "v1" /\ pc = "failed" /\ DOMAIN v1.field_details # {}) =>
        /\ "raw_field_details_on_error" \in DOMAIN V1Footer
        /\ DOMAIN V1Footer.raw_field_details_on_error = DOMAIN v1.field_details


\* the segment analyze_parquet_file appends first: that of the leading marker
V1FirstProduced ==
    IF nav.file_size < 4 THEN V1TruncatedMarker(nav.file_size)
    ELSE V1LeadingMarker(nav.header_ok)

C22_WalkFailureContained ==
    [][ (engine = "nav" /\ pc = "regions") => pc' \in {"regions", "returned"} ]_vars

-----------------------------------------------------------------------------
\* The v1 engine under FileMetaData.read() of a footer that holds fields
\* the schema does not define: the generated read() calls iprot.skip(ftype)
\* for them, and skip() of a struct calls the engine's own readStructBegin,
\* readFieldBegin, readFieldEnd and readStructEnd for every struct nested in
\* it. stk holds the phase of every struct that is open.

\* a struct-typed field with an id no struct of parquet.ttypes defines
UnknownStructHdr == [id |-> 12, type |-> "STRUCT", name |-> "", cls |-> ""]

\* the depth of the deepest struct that cls declares, cls counted as 1
RECURSIVE SchemaDepth(_)
SchemaDepth(cls) ==
    LET nested == {f.cls : f \in {g \in Fields(cls) : g.type \in {"STRUCT", "LIST"}}}
        depths == {SchemaDepth(c) : c \in nested}
    IN  1 + (IF depths = {} THEN 0 ELSE CHOOSE d \in depths : \A x \in depths : x <= d)

InitSkip ==
    /\ engine = "skip" /\ pc = "decode" /\ pos = 0
    /\ limit \in StreamLens
    /\ stk = <<"begin">>
    /\ hdrs = 0 /\ elems = 0 /\ root = None
    /\ v1 = V1Init("FileMetaData")
    /\ v2 = None /\ v3 = None /\ out = None /\ nav = None

SkipRest == UNCHANGED <<engine, limit, hdrs, elems, root, v2, v3, out, nav>>

SkipReadStructBegin ==
    /\ engine = "skip" /\ pc = "decode" /\ stk[Len(stk)] = "begin"
    /\ v1' = V1readStructBegin(v1)
    /\ stk' = [stk EXCEPT ![Len(stk)] = "fields"]
    /\ UNCHANGED <<pc, pos>> /\ SkipRest

\* a header byte: STOP, or a struct-typed unknown field, whose skip()
\* begins with the struct nested in it; the read fails at the end of the
\* stream
SkipReadFieldBegin ==
    /\ engine = "skip" /\ pc = "decode" /\ stk[Len(stk)] = "fields"
    /\ \E h \in {StopHdr, UnknownStructHdr} :
         IF pos + 1 > limit
         THEN pc' = "error" /\ UNCHANGED <<pos, stk, v1>>
         ELSE /\ pos' = pos + 1
              /\ v1' = V1readFieldBegin(v1, h, pos, pos + 1)
              /\ stk' = IF h.type = "STOP" THEN [stk EXCEPT ![Len(stk)] = "end"]
                        ELSE Append([stk EXCEPT ![Len(stk)] = "fend"], "begin")
              /\ UNCHANGED pc
    /\ SkipRest

SkipReadStructEnd ==
    /\ engine = "skip" /\ pc = "decode" /\ stk[Len(stk)] = "end"
    /\ v1' = V1readStructEnd(v1)
    /\ stk' = Pop(stk)
    /\ pc' = IF Len(stk) = 1 THEN "done" ELSE "decode"
    /\ UNCHANGED pos /\ SkipRest

SkipReadFieldEnd ==
    /\ engine = "skip" /\ pc = "decode" /\ stk[Len(stk)] = "fend"
    /\ v1' = V1readFieldEnd(v1, pos)
    /\ stk' = [stk EXCEPT ![Len(stk)] = "fields"]
    /\ UNCHANGED <<pc, pos>> /\ SkipRest

NextSkip ==
    \/ SkipReadStructBegin
    \/ SkipReadFieldBegin
    \/ SkipReadStructEnd
    \/ SkipReadFieldEnd

SpecSkip == InitSkip /\ [][NextSkip]_vars

\* C23: the decode engine bounds nesting: its struct nesting counter never
\* exceeds a fixed ceiling, here the depth of the deepest struct the schema
\* declares, and a struct that begins deeper ends the decode in an error
\* instead of raising the counter.
C23_NestingCeiling ==
    engine = "skip" => v1.struct_nesting_level <= SchemaDepth("FileMetaData")

-----------------------------------------------------------------------------
\* The v1 engine over the bytes of one struct of scalars. Here the stream
\* is kept: nav.buf holds the compact-protocol encoding of a struct of class
\* nav.cls, and the hooks decode it byte by byte. stk holds the one frame
\* of the generated read().

PrimIntValues == {-1, 0, 1, 64}

PrimStrings == {<<>>, <<97>>}

Val(x) == [k |-> "val", v |-> x]

\* the values a field of this type may hold
PrimValues(type) ==
    CASE type = "BOOL" -> {Val(TRUE), Val(FALSE)}
      [] type = "STRING" -> {Val(s) : s \in PrimStrings}
      [] OTHER -> {Val(i) : i \in PrimIntValues}

PrimClasses == {"SortingColumn", "KeyValue"}

\* the structs of class cls over the fields ids: every field unset or set
RECURSIVE PrimObjectsOver(_, _)
PrimObjectsOver(cls, ids) ==
    IF ids = {} THEN {<<>>}
    ELSE LET id == CHOOSE i \in ids : TRUE IN
         { (id :> x) @@ o : x \in PrimValues(FieldOf(cls, id).type) \cup {None},
                            o \in PrimObjectsOver(cls, ids \ {id}) }

PrimObjects(cls) == PrimObjectsOver(cls, FieldIds(cls))

makeZigZag(n) == IF n >= 0 THEN 2 * n ELSE -2 * n - 1

fromZigZag(n) == IF n % 2 = 0 THEN n \div 2 ELSE -((n + 1) \div 2)

RECURSIVE writeVarint(_)
writeVarint(n) ==
    IF n < 128 THEN <<n>> ELSE <<128 + (n % 128)>> \o writeVarint(n \div 128)

\* the varint at cursor at (0-based) of buf; ok is FALSE when the bytes
\* run out first
RECURSIVE readVarint(_, _)
readVarint(buf, at) ==
    IF at >= Len(buf) THEN [ok |-> FALSE, v |-> 0, next |-> at]
    ELSE LET b == buf[at + 1] IN
         IF b < 128 THEN [ok |-> TRUE, v |-> b, next |-> at + 1]
         ELSE LET r == readVarint(buf, at + 1) IN
              [ok |-> r.ok, v |-> (b - 128) + 128 * r.v, next |-> r.next]

\* CompactType of a field header
CompactType(type, value) ==
    CASE type = "BOOL" -> IF value.v THEN 1 ELSE 2
      [] type = "I32" -> 5
      [] type = "I64" -> 6
      [] type = "STRING" -> 8
      [] OTHER -> 12

TTypeOf(ctype) ==
    CASE ctype \in {1, 2} -> "BOOL"
      [] ctype = 5 -> "I32"
      [] ctype = 6 -> "I64"
      [] ctype = 8 -> "STRING"
      [] OTHER -> "STRUCT"

\* writeFieldBegin and the value: a bool travels in the header alone
writeField(last, f, value) ==
    LET ctype == CompactType(f.type, value)
        header == IF f.id - last \in 1..15 THEN <<(f.id - last) * 16 + ctype>>
                  ELSE <<ctype>> \o writeVarint(makeZigZag(f.id))
    IN header \o (CASE f.type = "BOOL" -> <<>>
                    [] f.type = "STRING" -> writeVarint(Len(value.v)) \o value.v
                    [] OTHER -> writeVarint(makeZigZag(value.v)))

\* the generated write(): the set fields in id order, then the STOP byte
RECURSIVE writeStruct(_, _, _, _)
writeStruct(cls, obj, last, ids) ==
    IF ids = {} THEN <<0>>
    ELSE LET id == CHOOSE i \in ids : \A j \in ids : i <= j IN
         IF obj[id] = None THEN writeStruct(cls, obj, last, ids \ {id})
         ELSE writeField(last, FieldOf(cls, id), obj[id])
                \o writeStruct(cls, obj, id, ids \ {id})

\* readBool / readI32 / readI64 / readString of TCompactProtocol with the
\* cursor at `at`: a bool announced by the field header (bool_value set) is
\* returned without reading, any other bool is one byte
readPrimitive(type, buf, at, bool_value) ==
    CASE type = "BOOL" ->
           IF bool_value # None THEN [ok |-> TRUE, v |-> bool_value.v, next |-> at]
           ELSE IF at >= Len(buf) THEN [ok |-> FALSE, v |-> FALSE, next |-> at]
           ELSE [ok |-> TRUE, v |-> buf[at + 1] = 1, next |-> at + 1]
      [] type = "STRING" ->
           LET n == readVarint(buf, at) IN
           IF ~n.ok \/ n.next + n.v > Len(buf) THEN [ok |-> FALSE, v |-> <<>>, next |-> at]
           ELSE [ok |-> TRUE, v |-> SubSeq(buf, n.next + 1, n.next + n.v), next |-> n.next + n.v]
      [] OTHER ->
           LET n == readVarint(buf, at) IN
           [ok |-> n.ok, v |-> fromZigZag(n.v), next |-> n.next]

\* the primitive decoder of the type over these bytes alone
DecodeIsolated(type, bytes) ==
    LET r == readPrimitive(type, bytes, 0, None) IN
    IF r.ok THEN Val(r.v) ELSE [k |-> "error"]

PrimFrame(phase, last, fid, ft, bool_value, obj) ==
    [phase |-> phase, last |-> last, fid |-> fid, ft |-> ft, bool_value |-> bool_value, obj |-> obj]

InitPrim ==
    /\ engine = "prim" /\ pc = "decode" /\ pos = 0
    /\ \E cls \in PrimClasses : \E obj \in PrimObjects(cls) :
         /\ nav = [cls |-> cls, buf |-> writeStruct(cls, obj, 0, FieldIds(cls))]
         /\ limit = Len(nav.buf)
         /\ stk = <<PrimFrame("begin", 0, 0, "STOP", None, [i \in FieldIds(cls) |-> None])>>
         /\ v1 = V1Init(cls)
    /\ hdrs = 0 /\ elems = 0 /\ root = None
    /\ v2 = None /\ v3 = None /\ out = None

PrimRest == UNCHANGED <<engine, limit, hdrs, elems, v2, v3, out, nav>>

PrimReadStructBegin ==
    /\ engine = "prim" /\ pc = "decode" /\ stk[1].phase = "begin"
    /\ v1' = V1readStructBegin(v1)
    /\ stk' = <<[stk[1] EXCEPT !.phase = "fields"]>>
    /\ UNCHANGED <<pc, pos, root>> /\ PrimRest

\* readFieldBegin: the header byte holds the id delta and the compact type;
\* a zero delta is followed by the id
PrimReadFieldBegin ==
    /\ engine = "prim" /\ pc = "decode" /\ stk[1].phase = "fields"
    /\ LET b == nav.buf[pos + 1]
           ctype == b % 16
           long == readVarint(nav.buf, pos + 1)
           fid == IF b \div 16 = 0 THEN fromZigZag(long.v) ELSE stk[1].last + b \div 16
           end == IF b = 0 \/ b \div 16 # 0 THEN pos + 1 ELSE long.next
           ft == IF b = 0 THEN "STOP" ELSE TTypeOf(ctype)
           h == [id |-> IF b = 0 THEN 0 ELSE fid, type |-> ft, name |-> "", cls |-> ""]
       IN /\ pos' = end
          /\ v1' = V1readFieldBegin(v1, h, pos, end)
          /\ stk' = <<IF b = 0 THEN [stk[1] EXCEPT !.phase = "end"]
                      ELSE PrimFrame("value", fid, fid, ft,
                                     IF ctype \in {1, 2} THEN Val(ctype = 1) ELSE None,
                                     stk[1].obj)>>
    /\ UNCHANGED <<pc, root>> /\ PrimRest

\* self.<field> = iprot.readX(), through _read_primitive
PrimReadValue ==
    /\ engine = "prim" /\ pc = "decode" /\ stk[1].phase = "value"
    /\ LET r == readPrimitive(stk[1].ft, nav.buf, pos, stk[1].bool_value) IN
          /\ pos' = r.next
          /\ v1' = V1_read_primitive(v1, pos, r.next)
          /\ stk' = <<[stk[1] EXCEPT !.phase = "fend", !.bool_value = None,
                                     !.obj[stk[1].fid] = Val(r.v)]>>
    /\ UNCHANGED <<pc, root>> /\ PrimRest

PrimReadFieldEnd ==
    /\ engine = "prim" /\ pc = "decode" /\ stk[1].phase = "fend"
    /\ v1' = V1readFieldEnd(v1, pos)
    /\ stk' = <<[stk[1] EXCEPT !.phase = "fields"]>>
    /\ UNCHANGED <<pc, pos, root>> /\ PrimRest

PrimReadStructEnd ==
    /\ engine = "prim" /\ pc = "decode" /\ stk[1].phase = "end"
    /\ v1' = V1readStructEnd(v1)
    /\ root' = stk[1].obj
    /\ pc' = "done"
    /\ UNCHANGED <<pos, stk>> /\ PrimRest

NextPrim ==
    \/ PrimReadStructBegin
    \/ PrimReadFieldBegin
    \/ PrimReadValue
    \/ PrimReadFieldEnd
    \/ PrimReadStructEnd

SpecPrim == InitPrim /\ [][NextPrim]_vars

\* the decode gives back the struct that was written
PrimDecodesWritten ==
    (engine = "prim" /\ pc = "done") =>
        nav.buf = writeStruct(nav.cls, root, 0, FieldIds(nav.cls))

\* C24: every scalar field the v1 engine captured, a bool carried in the
\* field header included, has a value_range whose bytes, given alone to
\* the primitive decoder of the field's type, decode to the value the
\* field holds.
C24_ValueRangeRoundTrip ==
    (engine = "prim" /\ pc = "done") =>
        \A f \in Fields(nav.cls) :
            root[f.id] # None =>
                LET key == V1Key(1, f.name, f.id) IN
                /\ key \in DOMAIN v1.field_details
                /\ v1.field_details[key].val # <<>>
                /\ DecodeIsolated(f.type,
                                  SubSeq(nav.buf, v1.field_details[key].val[1] + 1,
                                         v1.field_details[key].val[2])) = root[f.id]

-----------------------------------------------------------------------------
\* Enum resolution on its own: one int-valued field of a struct whose
\* values the v3 engine reads (readI32 -> _append_value -> _annotate_enum)
\* and which v2's thrift_to_segments then renders with
\* process_primitive_value. root holds the codes read so far.

MaxEnumCode == 10

MaxEnumValues == 2

EnumCodes == -1..MaxEnumCode

EnumField(struct_name, field_name, list) ==
    [struct_name |-> struct_name, field_name |-> field_name, list |-> list]

EnumFields ==
    { EnumField("ColumnMetaData", "type", FALSE),
      EnumField("ColumnMetaData", "codec", FALSE),
      EnumField("ColumnMetaData", "encodings", TRUE),
      EnumField("SchemaElement", "type", FALSE),
      EnumField("SchemaElement", "repetition_type", FALSE),
      EnumField("SchemaElement", "num_children", FALSE) }

\* the engine after readStructBegin of the struct and readFieldBegin of
\* the field
InitEnum ==
    /\ engine = "enum" /\ pc = "resolve" /\ pos = 0 /\ limit = 0
    /\ nav \in EnumFields
    /\ v3 = _new_child(V3Init("root", nav.struct_name),
                       Ctx(nav.field_name, IF nav.list THEN "list" ELSE "i32", "", "",
                           0, nav.list, <<"field", 0>>))
    /\ root = <<>> /\ out = <<>>
    /\ stk = <<>> /\ hdrs = 0 /\ elems = 0 /\ v1 = None /\ v2 = None

EnumRest == UNCHANGED <<engine, pos, limit, stk, hdrs, elems, v1, v2, nav>>

\* v3: readI32 of the field's value, or of one more entry of the list
EnumV3Read ==
    /\ engine = "enum" /\ pc = "resolve"
    /\ Len(root) < (IF nav.list THEN MaxEnumValues ELSE 1)
    /\ \E code \in EnumCodes :
         /\ v3' = _append_value(v3, code)
         /\ root' = Append(root, code)
    /\ UNCHANGED <<pc, out>> /\ EnumRest

\* v2: thrift_to_segments renders the field's value, or every list item
EnumV2Process ==
    /\ engine = "enum" /\ pc = "resolve" /\ root # <<>>
    /\ out' = [i \in 1..Len(root) |->
                 process_primitive_value(PrimVal(root[i]), nav.field_name, nav.struct_name)]
    /\ pc' = "returned"
    /\ UNCHANGED <<root, v3>> /\ EnumRest

NextEnum ==
    \/ EnumV3Read
    \/ EnumV2Process

SpecEnum == InitEnum /\ [][NextEnum]_vars

\* the name the code must be shown with
EnumNameOf(enum_class, code) ==
    NamesGet(enum_class, code, Name("UNKNOWN(" \o ToString(code) \o ")"))

EnumV2Resolved ==
    (engine = "enum" /\ pc = "returned"
        /\ get_enum_class_for_field(nav.field_name, nav.struct_name) # "") =>
        \A i \in 1..Len(root) :
            out[i] = [enum_value |-> root[i],
                      enum_name |-> EnumNameOf(get_enum_class_for_field(nav.field_name,
                                                                        nav.struct_name),
                                               root[i])]

EnumV3Resolved ==
    (engine = "enum" /\ root # <<>> /\ _is_enum(nav.struct_name, nav.field_name)) =>
        /\ v3.cur.enum_type = enum_map(nav.struct_name, nav.field_name)
        /\ IF nav.list
           THEN /\ Len(v3.cur.enum_name) = Len(root)
                /\ \A i \in 1..Len(root) :
                     v3.cur.enum_name[i] = EnumNameOf(v3.cur.enum_type, root[i])
           ELSE v3.cur.enum_name = EnumNameOf(v3.cur.enum_type, root[1])

\* C25: a code the enum's table does not hold is shown as
\* 'UNKNOWN(<code>)' next to the code, by process_primitive_value (v2) and
\* by the v3 engine's enum annotation, for a single enum field and for
\* every entry of a list-of-enum field; a code of the table is shown by its
\* name.
C25_EnumResolution == EnumV2Resolved /\ EnumV3Resolved

\* the omission rule, on the fields shown for obj and on the structs nested
\* in them: a field is left out exactly when it holds no value, is not
\* required and the flag is off; a field without a value that is shown is
\* shown with None, a field with a value with a value
RECURSIVE V1OmissionRule(_, _, _)
V1OmissionRule(fields, obj, flag) ==
    \A id \in FieldIds(obj.cls) :
        LET f == FieldOf(obj.cls, id)
            slot == obj.f[id]
            shown == {i \in 1..Len(fields) : fields[i].field_id = id}
        IN /\ Cardinality(shown) <= 1
           /\ (shown = {}) <=> (slot = None /\ ~IsRequired(obj.cls, f.name) /\ ~flag)
           /\ \A i \in shown :
                IF slot = None THEN fields[i].value = None
                ELSE /\ fields[i].value # None
                     /\ CASE f.type = "STRUCT" ->
                               V1OmissionRule(fields[i].value.fields, slot.v, flag)
                          [] f.type = "LIST" ->
                               /\ Len(fields[i].value.items) = Len(slot.v.items)
                               /\ \A e \in 1..Len(slot.v.items) :
                                    V1OmissionRule(fields[i].value.items[e].fields,
                                                   slot.v.items[e], flag)
                          [] OTHER -> TRUE

\* C26: thrift_to_dict_with_offsets leaves out a field whose value is None
\* and that the required-field table does not name exactly when
\* show_undefined_optional is False, and shows it with the value None when
\* the flag is True; every field with a value and every required field is
\* shown whatever the flag.
C26_OmissionRule ==
    (engine = "v1" /\ pc = "returned") =>
        V1OmissionRule(V1Footer.fields, root, nav.show_undefined_optional)

\* with the flag off: a footer without its required version and without
\* the optional encryption_algorithm, and one list element shown
C26_Witness ==
    /\ engine = "v1" /\ pc = "returned" /\ ~nav.show_undefined_optional
    /\ root.f[1] = None /\ root.f[8] = None
    /\ \E i \in 1..Len(V1Footer.fields) :
         V1Footer.fields[i].field_id = 1 /\ V1Footer.fields[i].value = None
    /\ \A i \in 1..Len(V1Footer.fields) : V1Footer.fields[i].field_id # 8
    /\ \E i \in 1..Len(V1Footer.fields) :
         /\ V1Footer.fields[i].field_id = 2 /\ V1Footer.fields[i].value # None
         /\ Len(V1Footer.fields[i].value.items) > 0

\* with the flag on: the optional encryption_algorithm shown with None
C26_WitnessShown ==
    /\ engine = "v1" /\ pc = "returned" /\ nav.show_undefined_optional
    /\ \E i \in 1..Len(V1Footer.fields) :
         V1Footer.fields[i].field_id = 8 /\ V1Footer.fields[i].value = None

-----------------------------------------------------------------------------
\* get_thrift_type_name of v1 on its own. A Python value is a record: None,
\* a TType constant, a bool, a class or a tuple of values.

PyType(t) == [k |-> "ttype", v |-> t]

PyBool(b) == [k |-> "bool", v |-> b]

PyClass(name) == [k |-> "class", v |-> name]

PyTuple(items) == [k |-> "tuple", v |-> items]

\* the constants of thrift.Thrift.TType
TTypeId ==
    [ BOOL |-> 2, BYTE |-> 3, DOUBLE |-> 4, I16 |-> 6, I32 |-> 8, I64 |-> 10,
      STRING |-> 11, STRUCT |-> 12, MAP |-> 13, SET |-> 14, LIST |-> 15 ]

\* the type_map of v1's get_thrift_type_name
v1_type_map ==
    [ BOOL |-> "bool", BYTE |-> "i8", I16 |-> "i16", I32 |-> "i32", I64 |-> "i64",
      DOUBLE |-> "double", STRING |-> "string" ]

\* str(value), as an f-string shows it
RECURSIVE PyStr(_)
PyStrItems(items) ==
    IF Len(items) = 1 THEN PyStr(items[1]) \o ","
    ELSE IF Len(items) = 2 THEN PyStr(items[1]) \o ", " \o PyStr(items[2])
    ELSE PyStr(items[1]) \o ", " \o PyStr(items[2]) \o ", " \o PyStr(items[3])

PyStr(value) ==
    CASE value.k = "none" -> "None"
      [] value.k = "ttype" -> ToString(TTypeId[value.v])
      [] value.k = "bool" -> IF value.v THEN "True" ELSE "False"
      [] value.k = "class" -> "<class '" \o value.v \o "'>"
      [] value.k = "tuple" -> IF value.v = <<>> THEN "()" ELSE "(" \o PyStrItems(value.v) \o ")"

\* type_args and isinstance(type_args, tuple) and len(type_args) > 0
NonEmptyTuple(value) == value.k = "tuple" /\ value.v # <<>>

RECURSIVE get_thrift_type_name(_, _)
get_thrift_type_name(field_type, type_args) ==
    IF field_type.k = "ttype" /\ field_type.v \in DOMAIN v1_type_map
    THEN v1_type_map[field_type.v]
    ELSE IF field_type = PyType("LIST")
    THEN IF NonEmptyTuple(type_args)
         THEN LET element_type == type_args.v[1] IN
              IF NonEmptyTuple(element_type) /\ element_type.v[1].k = "class"
              THEN "list<" \o element_type.v[1].v \o ">"
              ELSE "list<" \o get_thrift_type_name(element_type, None) \o ">"
         ELSE "list"
    ELSE IF field_type = PyType("STRUCT")
    THEN IF NonEmptyTuple(type_args) /\ type_args.v[1].k = "class"
         THEN type_args.v[1].v
         ELSE "struct"
    ELSE "unknown_type_" \o PyStr(field_type)

TypeNameClasses == {"SchemaElement", "RowGroup", "ColumnChunk", "KeyValue"}

\* the shapes of type_args the generated specs and the tests use
ListOfStructs(cls) == PyTuple(<<PyType("STRUCT"), PyTuple(<<PyClass(cls)>>), PyBool(FALSE)>>)

ListOfClass(cls) == PyTuple(<<PyClass(cls), PyType("STRUCT")>>)

ListLegacy(cls) == PyTuple(<<PyTuple(<<PyClass(cls)>>)>>)

StructOf(cls) == PyTuple(<<PyClass(cls)>>)

ListOfPrimitives(t) == PyTuple(<<PyType(t), None, PyBool(FALSE)>>)

TypeArgs ==
    {None, PyTuple(<<>>)}
        \cup {ListOfStructs(c) : c \in TypeNameClasses}
        \cup {ListOfClass(c) : c \in TypeNameClasses}
        \cup {ListLegacy(c) : c \in TypeNameClasses}
        \cup {StructOf(c) : c \in TypeNameClasses}
        \cup {ListOfPrimitives(t) : t \in DOMAIN v1_type_map}
        \cup {PyTuple(<<PyType(t)>>) : t \in DOMAIN v1_type_map}

InitTypeName ==
    /\ engine = "type_name" /\ pc = "call" /\ pos = 0 /\ limit = 0
    /\ \E t \in DOMAIN TTypeId, type_args \in TypeArgs :
         nav = [field_type |-> PyType(t), type_args |-> type_args]
    /\ out = None /\ root = None
    /\ stk = <<>> /\ hdrs = 0 /\ elems = 0 /\ v1 = None /\ v2 = None /\ v3 = None

TypeNameCall ==
    /\ engine = "type_name" /\ pc = "call"
    /\ out' = [k |-> "str", v |-> get_thrift_type_name(nav.field_type, nav.type_args)]
    /\ pc' = "returned"
    /\ UNCHANGED <<engine, pos, limit, stk, hdrs, elems, root, v1, v2, v3, nav>>

NextTypeName == TypeNameCall

SpecTypeName == InitTypeName /\ [][NextTypeName]_vars

\* C27: get_thrift_type_name names a list of structs 'list<Class>', whether
\* type_args is (TType.STRUCT, (Class,), False) or (Class, TType.STRUCT), a
\* list of primitives 'list<primitive name>' and a struct field by its
\* class; it never answers 'list<struct>' when type_args names the class.
C27_TypeNames ==
    (engine = "type_name" /\ pc = "returned") =>
        /\ nav.field_type = PyType("LIST") =>
             /\ \A c \in TypeNameClasses :
                  nav.type_args \in {ListOfStructs(c), ListOfClass(c)}
                      => out.v = "list<" \o c \o ">"
             /\ \A t \in DOMAIN v1_type_map :
                  nav.type_args = ListOfPrimitives(t) => out.v = "list<" \o v1_type_map[t] \o ">"
        /\ nav.field_type = PyType("STRUCT") =>
             \A c \in TypeNameClasses : nav.type_args = StructOf(c) => out.v = c

\* C28: analyze_parquet_file_v2 builds row_group and column_chunk segments
\* only when the footer decoded: when the decode raised, the output holds
\* the parquet_footer_error segment and no row_group segment made of the
\* part of the metadata that was decoded.
C28_NoRowGroupsOnError ==
    (engine = "v2" /\ pc = "failed") =>
        /\ \E i \in 1..Len(out.segments) : out.segments[i].type = "parquet_footer_error"
        /\ \A i \in 1..Len(out.segments) : out.segments[i].type # "row_group"

\* C29: fill_gaps never makes a segment of negative length: every "unknown"
\* segment of the list parse_parquet_file returns has a length above zero,
\* also when two regions overlap or start at the same offset or when a
\* region ends behind file_size.
C29_NoNegativeGap ==
    (engine = "nav" /\ pc = "returned") =>
        \A i \in 1..Len(out) : out[i].name = "unknown" => out[i].length > 0

-----------------------------------------------------------------------------
\* TFileTransport (v3) over a file handle it shares with other readers.
\* nav holds the handle (its size and position) and the transport's two
\* fields; out holds what the last read() did. NoId stands for None.

MaxTransportFile == 4

MaxReadSize == 2

\* self._start_offset = start_offset or file_handle.tell()
TFileTransportInit(file_pos, start_offset) ==
    IF start_offset # NoId /\ start_offset # 0 THEN start_offset ELSE file_pos

\* bytes file.read(sz) returns with the handle at offset at
FileRead(file_size, at, sz) ==
    IF at >= file_size THEN 0
    ELSE IF at + sz > file_size THEN file_size - at ELSE sz

InitTransport ==
    /\ engine = "transport" /\ pc = "new" /\ pos = 0 /\ limit = 0
    /\ \E file_pos \in 0..MaxTransportFile :
         nav = [file_size |-> MaxTransportFile, file_pos |-> file_pos,
                start_offset |-> NoId, _start_offset |-> NoId, _current_offset |-> NoId]
    /\ out = None /\ root = None
    /\ stk = <<>> /\ hdrs = 0 /\ elems = 0 /\ v1 = None /\ v2 = None /\ v3 = None

TransportRest == UNCHANGED <<engine, pos, limit, stk, hdrs, elems, root, v1, v2, v3>>

\* TFileTransport(file_handle, start_offset), start_offset given or None
TransportNew ==
    /\ engine = "transport" /\ pc = "new"
    /\ \E start_offset \in {NoId} \cup 0..MaxTransportFile :
         nav' = [nav EXCEPT !.start_offset = start_offset,
                            !._start_offset = TFileTransportInit(nav.file_pos, start_offset),
                            !._current_offset = TFileTransportInit(nav.file_pos, start_offset)]
    /\ pc' = "open"
    /\ UNCHANGED out /\ TransportRest

\* read(sz): seek the handle to the transport's offset, read, advance; the
\* handle refuses a negative offset
TransportRead ==
    /\ engine = "transport" /\ pc = "open"
    /\ \E sz \in 0..MaxReadSize :
         IF nav._current_offset < 0
         THEN pc' = "raised" /\ UNCHANGED <<nav, out>>
         ELSE LET n == FileRead(nav.file_size, nav._current_offset, sz) IN
              /\ out' = [from |-> nav._current_offset, n |-> n,
                         tell_before |-> nav._current_offset - nav._start_offset,
                         tell_after |-> nav._current_offset + n - nav._start_offset]
              /\ nav' = [nav EXCEPT !.file_pos = nav._current_offset + n,
                                    !._current_offset = @ + n]
              /\ UNCHANGED pc
    /\ TransportRest

\* seek(offset, whence)
TransportSeek ==
    /\ engine = "transport" /\ pc = "open"
    /\ \E offset \in -1..MaxReadSize, whence \in 0..2 :
         CASE whence = 0 ->
                /\ nav' = [nav EXCEPT !._current_offset = nav._start_offset + offset]
                /\ UNCHANGED pc
           [] whence = 1 ->
                /\ nav._current_offset + offset \in -1..(MaxTransportFile + MaxReadSize)
                /\ nav' = [nav EXCEPT !._current_offset = @ + offset]
                /\ UNCHANGED pc
           [] whence = 2 -> pc' = "raised" /\ UNCHANGED nav
    /\ UNCHANGED out /\ TransportRest

\* another reader moves the shared handle
FileSeek ==
    /\ engine = "transport" /\ pc = "open"
    /\ \E offset \in 0..MaxTransportFile : nav' = [nav EXCEPT !.file_pos = offset]
    /\ UNCHANGED <<pc, out>> /\ TransportRest

NextTransport ==
    \/ TransportNew
    \/ TransportRead
    \/ TransportSeek
    \/ FileSeek

SpecTransport == InitTransport /\ [][NextTransport]_vars

\* C30: a TFileTransport made with an explicit start_offset, 0 included,
\* reads from that absolute offset: every read returns the bytes of the
\* file at start_offset + tell() and moves tell() on by the number of bytes
\* returned, wherever other reads or seeks left the shared handle.
C30_ReadsAtStartOffset ==
    (engine = "transport" /\ nav.start_offset # NoId /\ out # None) =>
        /\ out.from = nav.start_offset + out.tell_before
        /\ out.tell_after = out.tell_before + out.n

=============================================================================
